---- MODULE Spec2Model ----
(***************************************************************************)
(* Response-driven file materialization and bounded retry in the           *)
(* Web-Builder scripts.                                                    *)
(*                                                                         *)
(* Strings are sequences of tokens.  A token is one character, except that *)
(* the run of three backticks (BT) and the words "folder" and "file" are   *)
(* one token each, so that startsWith, split, trim and join act on strings *)
(* as the JavaScript methods do.                                           *)
(***************************************************************************)
EXTENDS Integers, Sequences, FiniteSets, TLC

\* ------------------------------------------------------------------ bounds
MaxLines == 4
MaxDirectives == 2
MaxContent == 2
MaxRetries == 3
MaxTurns == 3
MaxCommands == 3
MaxEdgeLines == 4
MaxChunks == 2
MaxInsightCalls == 8

\* ------------------------------------------------------------------ tokens
\* the run of three backticks that opens and closes a marker
BT == "FENCE"
NL == "\n"
SP == " "
COLON == ":"
SLASH == "/"

\* JavaScript null for currentFilePath / currentFile
Null == <<"null">>

\* truthiness of a string-or-null value: null and "" are falsy
Truthy(p) == p # Null /\ p # <<>>

\* ------------------------------------------------------- string operations
StartsWith(s, p) == Len(s) >= Len(p) /\ SubSeq(s, 1, Len(p)) = p

RECURSIVE SplitOn(_, _)
\* String.prototype.split(sep): the pieces between separators, empty pieces kept
SplitOn(s, sep) ==
    IF \A k \in 1..Len(s) : s[k] # sep
    THEN <<s>>
    ELSE LET k == CHOOSE j \in 1..Len(s) :
                      s[j] = sep /\ \A m \in 1..(j-1) : s[m] # sep
         IN  <<SubSeq(s, 1, k-1)>> \o SplitOn(SubSeq(s, k+1, Len(s)), sep)

RECURSIVE Join(_, _)
\* Array.prototype.join(sep)
Join(ls, sep) ==
    IF Len(ls) = 0 THEN <<>>
    ELSE IF Len(ls) = 1 THEN ls[1]
    ELSE ls[1] \o <<sep>> \o Join(Tail(ls), sep)

\* the white space that trim() removes
Whitespace == {SP, NL}

RECURSIVE TrimStart(_)
TrimStart(s) == IF Len(s) > 0 /\ s[1] \in Whitespace THEN TrimStart(Tail(s)) ELSE s

RECURSIVE TrimEnd(_)
TrimEnd(s) ==
    IF Len(s) > 0 /\ s[Len(s)] \in Whitespace
    THEN TrimEnd(SubSeq(s, 1, Len(s)-1)) ELSE s

\* String.prototype.trim()
Trim(s) == TrimEnd(TrimStart(s))

\* line.split(':')[1].trim(), the path of a marker line
MarkerPath(line) == Trim(SplitOn(line, COLON)[2])

\* path.dirname: everything before the last "/", or "." when there is none
Dirname(p) ==
    IF \A k \in 1..Len(p) : p[k] # SLASH
    THEN <<".">>
    ELSE LET k == CHOOSE j \in 1..Len(p) :
                      p[j] = SLASH /\ \A m \in (j+1)..Len(p) : p[m] # SLASH
         IN  IF k = 1 THEN <<SLASH>> ELSE SubSeq(p, 1, k-1)

\* the directory and all its ancestors, as mkdir({recursive: true}) creates
WithAncestors(p) ==
    {SubSeq(p, 1, k-1) : k \in {j \in 2..Len(p) : p[j] = SLASH}} \cup {p}

FolderPrefix == <<BT, "folder", COLON>>
FilePrefix == <<BT, "file", COLON>>

\* ------------------------------------------------------------- filesystem
\* what the operating system does to one helper call: nothing wrong, the
\* mkdir fails (permission denied, invalid path), or the write fails (disk full)
IoOutcomes == {"ok", "mkdirFails", "writeFails"}

\* variant: mkdir without {recursive: true}, an existing directory is EEXIST
MkdirOk_NotRecursive(st, p, io) ==
    /\ io # "mkdirFails"
    /\ p # <<>>
    /\ p \notin st.dirs
    /\ \A q \in WithAncestors(p) : q \notin DOMAIN st.files

\* fs.mkdir(p, {recursive: true}) succeeds unless the system refuses, the
\* path is empty, or a file is in the way; an existing directory is no error
MkdirOk(st, p, io) ==
    /\ io # "mkdirFails"
    /\ p # <<>>
    /\ \A q \in WithAncestors(p) : q \notin DOMAIN st.files

\* the scan state with the operation appended to the trace of helper calls
Logged(st, name, p, c, io, ok) ==
    [st EXCEPT !.ops = Append(@, [op |-> name, path |-> p, content |-> c,
                                  io |-> io, ok |-> ok])]

\* console.log / console.error of one message about one path
Printed(st, level, msg, p) ==
    [st EXCEPT !.console = Append(@, [level |-> level, msg |-> msg, path |-> p])]

\* await fs.mkdir(folderPath, {recursive: true}), uncaught
Mkdir(st, p, io) ==
    LET ok == MkdirOk(st, p, io)
    IN  [Logged(st, "createFolder", p, <<>>,
                IF io = "mkdirFails" THEN io ELSE "ok", ok) EXCEPT
            !.dirs = IF ok THEN @ \cup WithAncestors(p) ELSE @,
            !.thrown = ~ok]

\* await fs.mkdir(path.dirname(filePath), {recursive: true});
\* await fs.writeFile(filePath, content), uncaught
MkdirAndWrite(st, p, c, io) ==
    LET d == Dirname(p)
        mk == MkdirOk(st, d, io)
        dirs1 == IF mk THEN st.dirs \cup WithAncestors(d) ELSE st.dirs
        ok == mk /\ io # "writeFails" /\ p # <<>> /\ p \notin dirs1
    IN  [Logged(st, "writeFile", p, c, io, ok) EXCEPT
            !.dirs = dirs1,
            !.files = IF ok THEN (p :> c) @@ @ ELSE @,
            !.thrown = ~ok]

\* ------------------------------------------------- AiBuild.js: the scanner
\* variant: the catch block swallows the error without a message
createFolder_SilentCatch(st, folderPath, io) ==
    LET r == Mkdir(st, folderPath, io)
    IN  IF r.thrown
        THEN [r EXCEPT !.thrown = FALSE]
        ELSE Printed(r, "log", "Created folder", folderPath)

\* createFolder: success is logged, an error is caught and logged
createFolder(st, folderPath, io) ==
    LET r == Mkdir(st, folderPath, io)
    IN  IF r.thrown
        THEN Printed([r EXCEPT !.thrown = FALSE], "error", "Error creating folder", folderPath)
        ELSE Printed(r, "log", "Created folder", folderPath)

\* variant: an existing file is kept (open flag 'wx' in place of 'w')
writeFile_KeepExisting(st, filePath, content, io) ==
    LET r == MkdirAndWrite(st, filePath, content, io)
        kept == [r EXCEPT !.files = st.files @@ @]
    IN  IF r.thrown
        THEN Printed([kept EXCEPT !.thrown = FALSE], "error", "Error writing file", filePath)
        ELSE Printed(kept, "log", "Created/Updated file", filePath)

\* writeFile: success is logged, an error is caught and logged
writeFile(st, filePath, content, io) ==
    LET r == MkdirAndWrite(st, filePath, content, io)
    IN  IF r.thrown
        THEN Printed([r EXCEPT !.thrown = FALSE], "error", "Error writing file", filePath)
        ELSE Printed(r, "log", "Created/Updated file", filePath)

\* variant: the close marker writes the block but leaves it open
processFileCreationLine_KeepOpen(st, line, io) ==
    IF StartsWith(line, FolderPrefix)
    THEN createFolder(st, MarkerPath(line), io)
    ELSE IF StartsWith(line, FilePrefix)
    THEN LET st1 == IF Truthy(st.currentFilePath)
                    THEN writeFile(st, st.currentFilePath,
                                   Join(st.currentFileContent, NL), io)
                    ELSE st
         IN  [st1 EXCEPT !.currentFilePath = MarkerPath(line),
                         !.currentFileContent = <<>>]
    ELSE IF line = <<BT>> /\ Truthy(st.currentFilePath)
    THEN writeFile(st, st.currentFilePath, Join(st.currentFileContent, NL), io)
    ELSE IF Truthy(st.currentFilePath)
    THEN [st EXCEPT !.currentFileContent = Append(@, line)]
    ELSE st

\* variant: buffered lines are trimmed
processFileCreationLine_TrimLines(st, line, io) ==
    IF StartsWith(line, FolderPrefix)
    THEN createFolder(st, MarkerPath(line), io)
    ELSE IF StartsWith(line, FilePrefix)
    THEN LET st1 == IF Truthy(st.currentFilePath)
                    THEN writeFile(st, st.currentFilePath,
                                   Join(st.currentFileContent, NL), io)
                    ELSE st
         IN  [st1 EXCEPT !.currentFilePath = MarkerPath(line),
                         !.currentFileContent = <<>>]
    ELSE IF line = <<BT>> /\ Truthy(st.currentFilePath)
    THEN [writeFile(st, st.currentFilePath, Join(st.currentFileContent, NL), io)
             EXCEPT !.currentFilePath = Null, !.currentFileContent = <<>>]
    ELSE IF Truthy(st.currentFilePath)
    THEN [st EXCEPT !.currentFileContent = Append(@, Trim(line))]
    ELSE st

\* variant: a file-open marker inside an open block drops the buffered lines
processFileCreationLine_DropOnReopen(st, line, io) ==
    IF StartsWith(line, FolderPrefix)
    THEN createFolder(st, MarkerPath(line), io)
    ELSE IF StartsWith(line, FilePrefix)
    THEN LET st1 == st
         IN  [st1 EXCEPT !.currentFilePath = MarkerPath(line),
                         !.currentFileContent = <<>>]
    ELSE IF line = <<BT>> /\ Truthy(st.currentFilePath)
    THEN [writeFile(st, st.currentFilePath, Join(st.currentFileContent, NL), io)
             EXCEPT !.currentFilePath = Null, !.currentFileContent = <<>>]
    ELSE IF Truthy(st.currentFilePath)
    THEN [st EXCEPT !.currentFileContent = Append(@, line)]
    ELSE st

\* variant: a folder marker closes the open block without writing it
processFileCreationLine_FolderResets(st, line, io) ==
    IF StartsWith(line, FolderPrefix)
    THEN [createFolder(st, MarkerPath(line), io)
             EXCEPT !.currentFilePath = Null, !.currentFileContent = <<>>]
    ELSE IF StartsWith(line, FilePrefix)
    THEN LET st1 == IF Truthy(st.currentFilePath)
                    THEN writeFile(st, st.currentFilePath,
                                   Join(st.currentFileContent, NL), io)
                    ELSE st
         IN  [st1 EXCEPT !.currentFilePath = MarkerPath(line),
                         !.currentFileContent = <<>>]
    ELSE IF line = <<BT>> /\ Truthy(st.currentFilePath)
    THEN [writeFile(st, st.currentFilePath, Join(st.currentFileContent, NL), io)
             EXCEPT !.currentFilePath = Null, !.currentFileContent = <<>>]
    ELSE IF Truthy(st.currentFilePath)
    THEN [st EXCEPT !.currentFileContent = Append(@, line)]
    ELSE st

\* variant: lines outside a block are buffered too
processFileCreationLine_AppendOutside(st, line, io) ==
    IF StartsWith(line, FolderPrefix)
    THEN createFolder(st, MarkerPath(line), io)
    ELSE IF StartsWith(line, FilePrefix)
    THEN LET st1 == IF Truthy(st.currentFilePath)
                    THEN writeFile(st, st.currentFilePath,
                                   Join(st.currentFileContent, NL), io)
                    ELSE st
         IN  [st1 EXCEPT !.currentFilePath = MarkerPath(line),
                         !.currentFileContent = <<>>]
    ELSE IF line = <<BT>> /\ Truthy(st.currentFilePath)
    THEN [writeFile(st, st.currentFilePath, Join(st.currentFileContent, NL), io)
             EXCEPT !.currentFilePath = Null, !.currentFileContent = <<>>]
    ELSE [st EXCEPT !.currentFileContent = Append(@, line)]

\* variant: blank lines inside a block are not buffered
processFileCreationLine_SkipBlank(st, line, io) ==
    IF StartsWith(line, FolderPrefix)
    THEN createFolder(st, MarkerPath(line), io)
    ELSE IF StartsWith(line, FilePrefix)
    THEN LET st1 == IF Truthy(st.currentFilePath)
                    THEN writeFile(st, st.currentFilePath,
                                   Join(st.currentFileContent, NL), io)
                    ELSE st
         IN  [st1 EXCEPT !.currentFilePath = MarkerPath(line),
                         !.currentFileContent = <<>>]
    ELSE IF line = <<BT>> /\ Truthy(st.currentFilePath)
    THEN [writeFile(st, st.currentFilePath, Join(st.currentFileContent, NL), io)
             EXCEPT !.currentFilePath = Null, !.currentFileContent = <<>>]
    ELSE IF Truthy(st.currentFilePath) /\ line # <<>>
    THEN [st EXCEPT !.currentFileContent = Append(@, line)]
    ELSE st

\* one iteration of the for loop of processFileCreation
processFileCreationLine(st, line, io) ==
    IF StartsWith(line, FolderPrefix)
    THEN createFolder(st, MarkerPath(line), io)
    ELSE IF StartsWith(line, FilePrefix)
    THEN LET st1 == IF Truthy(st.currentFilePath)
                    THEN writeFile(st, st.currentFilePath,
                                   Join(st.currentFileContent, NL), io)
                    ELSE st
         IN  [st1 EXCEPT !.currentFilePath = MarkerPath(line),
                         !.currentFileContent = <<>>]
    ELSE IF line = <<BT>> /\ Truthy(st.currentFilePath)
    THEN [writeFile(st, st.currentFilePath, Join(st.currentFileContent, NL), io)
             EXCEPT !.currentFilePath = Null, !.currentFileContent = <<>>]
    ELSE IF Truthy(st.currentFilePath)
    THEN [st EXCEPT !.currentFileContent = Append(@, line)]
    ELSE st

\* variant: a block still open at the end of the text is dropped
processFileCreationEnd_NoFlush(st, io) == st

\* the statement after the loop of processFileCreation
processFileCreationEnd(st, io) ==
    IF Truthy(st.currentFilePath)
    THEN writeFile(st, st.currentFilePath, Join(st.currentFileContent, NL), io)
    ELSE st

\* ------------------------- advanced_self_upgrading_assistant.js: the scanner
\* writeFile has no try/catch: an error leaves the function
writeFileAssistant(st, filePath, content, io) ==
    LET r == MkdirAndWrite(st, filePath, content, io)
    IN  IF r.thrown THEN r ELSE Printed(r, "log", "Created/Updated file", filePath)

\* the folder branch: await fs.mkdir(...); console.log(...), no try/catch
mkdirAssistant(st, folderPath, io) ==
    LET r == Mkdir(st, folderPath, io)
    IN  IF r.thrown THEN r ELSE Printed(r, "log", "Created folder", folderPath)

\* one iteration of the for loop of processFileCreation; a thrown error ends
\* the iteration at the await that raised it
processFileCreationAssistantLine(st, line, io) ==
    IF StartsWith(line, FolderPrefix)
    THEN mkdirAssistant(st, MarkerPath(line), io)
    ELSE IF StartsWith(line, FilePrefix)
    THEN LET st1 == IF Truthy(st.currentFilePath)
                    THEN writeFileAssistant(st, st.currentFilePath,
                                            Join(st.currentFileContent, NL), io)
                    ELSE st
         IN  IF st1.thrown THEN st1
             ELSE [st1 EXCEPT !.currentFilePath = MarkerPath(line),
                              !.currentFileContent = <<>>]
    ELSE IF line = <<BT>> /\ Truthy(st.currentFilePath)
    THEN LET st1 == writeFileAssistant(st, st.currentFilePath,
                                       Join(st.currentFileContent, NL), io)
         IN  IF st1.thrown THEN st1
             ELSE [st1 EXCEPT !.currentFilePath = Null, !.currentFileContent = <<>>]
    ELSE IF Truthy(st.currentFilePath)
    THEN [st EXCEPT !.currentFileContent = Append(@, line)]
    ELSE st

\* the statement after the loop
processFileCreationAssistantEnd(st, io) ==
    IF Truthy(st.currentFilePath)
    THEN writeFileAssistant(st, st.currentFilePath, Join(st.currentFileContent, NL), io)
    ELSE st

\* ------------------------------- UltraAdvancedWebGenerator.js: the scanner
\* this.basePath, the constructor's argument
BasePath == <<"base">>

\* path.join(this.basePath, filePath)
PathJoin(base, p) == base \o <<SLASH>> \o p

\* updateCodebase: the file is written under the base path and recorded in
\* this.codebase under the path as given; no try/catch.  (updateDependencies
\* scans the content for import/require, which no content here contains.)
updateCodebase(st, filePath, content, io) ==
    LET r == MkdirAndWrite(st, PathJoin(BasePath, filePath), content, io)
        r1 == [r EXCEPT
                 !.ops = Append(st.ops, [op |-> "updateCodebase", path |-> filePath,
                                         content |-> content, io |-> io,
                                         ok |-> ~r.thrown]),
                 !.codebase = IF r.thrown THEN @ ELSE (filePath :> content) @@ @]
    IN  IF r.thrown THEN r1 ELSE Printed(r1, "log", "Updated/Created", filePath)

\* one iteration of the for loop of implementEvolution
implementEvolutionLine(st, line, io) ==
    IF StartsWith(line, FilePrefix)
    THEN LET st1 == IF Truthy(st.currentFilePath)
                    THEN updateCodebase(st, st.currentFilePath,
                                        Join(st.currentFileContent, NL), io)
                    ELSE st
         IN  IF st1.thrown THEN st1
             ELSE [st1 EXCEPT !.currentFilePath = MarkerPath(line),
                              !.currentFileContent = <<>>]
    ELSE IF StartsWith(line, <<BT>>)
    THEN IF Truthy(st.currentFilePath)
         THEN LET st1 == updateCodebase(st, st.currentFilePath,
                                        Join(st.currentFileContent, NL), io)
              IN  IF st1.thrown THEN st1
                  ELSE [st1 EXCEPT !.currentFilePath = Null,
                                   !.currentFileContent = <<>>]
         ELSE st
    ELSE IF Truthy(st.currentFilePath)
    THEN [st EXCEPT !.currentFileContent = Append(@, line)]
    ELSE st

\* the statement after the loop
implementEvolutionEnd(st, io) ==
    IF Truthy(st.currentFilePath)
    THEN updateCodebase(st, st.currentFilePath, Join(st.currentFileContent, NL), io)
    ELSE st

\* ------------------------------------------------------------------ inputs
\* lines a response is made of: markers, malformed markers, content, prose
RawLines ==
    { FolderPrefix \o <<"d", BT>>,          \* folder directive on one line
      FilePrefix \o <<SP, "a">>,            \* file-open marker, padded path
      <<BT>>,                               \* bare close marker
      <<"x">>,                              \* text
      <<SP, "y", SP>>,                      \* text with surrounding blanks
      FilePrefix,                           \* file-open prefix with no path
      FolderPrefix \o <<SP>>,               \* folder-open prefix with no path
      FilePrefix \o <<"a", COLON, "b">>,    \* a path holding a colon
      <<BT, "js">> }                        \* a language-tagged code fence

RawLineSeqs == UNION {[1..n -> RawLines] : n \in 1..MaxLines}

\* directives of the marker grammar, and the prose between them
GrammarPaths == {<<"a">>, <<"d", SLASH, "b">>}
\* content lines: none is a marker line, one has surrounding blanks, one
\* starts with the backticks of a language-tagged code fence
GrammarContentLines == {<<SP, "y", SP>>, <<BT, "js">>}
GrammarBodies == UNION {[1..n -> GrammarContentLines] : n \in 0..MaxContent}

Directives ==
    {[kind |-> "folder", path |-> <<"d">>, body |-> <<>>],
     [kind |-> "prose", path |-> <<>>, body |-> <<<<"x">>>>]}
    \cup {[kind |-> "file", path |-> p, body |-> b] :
             p \in GrammarPaths, b \in GrammarBodies}

DirectiveSeqs == UNION {[1..n -> Directives] : n \in 1..MaxDirectives}

\* the lines that spell one directive in the marker grammar
RenderDirective(d) ==
    IF d.kind = "folder" THEN <<FolderPrefix \o d.path \o <<BT>>>>
    ELSE IF d.kind = "file" THEN <<FilePrefix \o d.path>> \o d.body \o <<<<BT>>>>
    ELSE d.body

RECURSIVE RenderLines(_)
RenderLines(ds) ==
    IF ds = <<>> THEN <<>> ELSE RenderDirective(Head(ds)) \o RenderLines(Tail(ds))

\* the response text that spells a sequence of directives
Render(ds) == Join(RenderLines(ds), NL)

Scanners == {"AiBuild", "Assistant", "Evolution"}

\* ------------------------------------------------------------------- state
VARIABLES
    response,    \* the text handed to the scanner
    directives,  \* the directives the text was rendered from, <<>> for raw text
    scanner,     \* which of the three scanners runs
    lines,       \* const lines = response.split('\n')
    i,           \* position of the for loop in lines
    scan,        \* currentFilePath, currentFileContent, the filesystem, the calls made
    pc,          \* "start", "loop", "done", "thrown"
    result,      \* the value the scanner's promise resolves to
    wrapper,     \* which retry wrapper runs
    maxAttempts, \* its bound: retries / 3 / maxRetries
    prompt,      \* the prompt of the running call
    rpc,         \* "idle", "attempting", "success", "failure", "off"
    attempt,     \* generateAIResponse: the loop variable attempt
    retriesLeft, \* generateUpgradePlan: the local variable retries
    backoffI,    \* exponentialBackoff: the loop variable i
    conversationHistory,  \* this.conversationHistory of WebsiteGenerator
    performanceMetrics,   \* keys of this.performanceMetrics
    waits,       \* the delays slept so far in the running call, in ms
    tally,       \* bookkeeping of the running call: remote calls, failures
    turns,       \* calls of generateAIResponse started so far
    lastError,   \* the error caught by the latest catch block of the wrapper
    handed,      \* what the call hands to its caller: a value or a thrown error
    targetFile,  \* upgradeFile: the content of the file at filePath
    aiResponse,  \* upgradeFile: const aiResponse of the latest attempt
    loopPc,      \* run: "prompt", "exited", "fatal", "restarted", "off"
    loopConsole, \* run: what the commands printed, in order
    commands,    \* run: commands read so far
    currentProject, \* AiBuild.js: let currentProject, set or null
    chunks,      \* AI turn: the chunks result.stream delivers, in order
    chunksLeft,  \* AI turn: the chunks not yet delivered
    responseText, \* AI turn: let responseText
    turnPc,      \* AI turn: "asking", "streaming", "scanning", "done", "caught"
    chatHistory, \* AI turn: the roles of the entries pushed to chatHistory
    originalFilePath, \* processAIResponse: its third argument, or undefined
    insightStack,    \* generateAdvancedCodeInsights: the calls awaiting a result
    insightOutcomes, \* what the remote service answered, call by call
    insightWaits,    \* the backoff delays slept, in ms
    insightPc,       \* "running", "returning", "done", "off"
    insightResult,   \* the value handed down the call chain
    compVersion,     \* createComponent: 1 for the class at Website.js:16, 2 for the one at 715
    compPc,          \* createComponent: "generating", "askRetry", "askExpansion", "saving", "done", "off"
    compLog,         \* createComponent: generateAIResponse outcomes and operator answers, in order
    componentContent, \* createComponent: let componentContent, one entry per appended response
    compSaves,       \* createComponent: calls of saveComponentToFile
    watchedFile,     \* real-time session: the content of the watched file
    lastWriter,      \* real-time session: who wrote watchedFile last, "user" or "session"
    previousContent, \* real-time session: let previousContent
    changeUnseen,    \* real-time session: the file changed since the watcher's last poll
    debounceArmed,   \* real-time session: a debounced processChanges call is due
    rounds,          \* real-time session: the processChanges invocations started
    modelCalls,      \* real-time session: generateAdvancedCodeInsights calls made
    userEdits        \* real-time session: edits made by the user so far

scanVars == <<response, directives, scanner, lines, i, scan, pc, result>>
retryVars == <<wrapper, maxAttempts, prompt, rpc, attempt, retriesLeft, backoffI,
               conversationHistory,
               performanceMetrics, waits, tally, turns,
               lastError, handed, targetFile, aiResponse>>
turnVars == <<chunks, chunksLeft, responseText, turnPc, chatHistory>>
regexVars == <<originalFilePath>>
insightVars == <<insightStack, insightOutcomes, insightWaits, insightPc,
                 insightResult>>
componentVars == <<compVersion, compPc, compLog, componentContent, compSaves>>
sessionVars == <<watchedFile, lastWriter, previousContent, changeUnseen,
                 debounceArmed,
                 rounds, modelCalls, userEdits>>
lateVars == <<componentVars, sessionVars>>
auxVars == <<turnVars, regexVars, insightVars, lateVars>>
loopVars == <<loopPc, loopConsole, commands, currentProject, auxVars>>
vars == <<scanVars, retryVars, loopVars>>

\* the value of a function that ends without a return statement
Undefined == [type |-> "undefined", list |-> <<>>]

\* bookkeeping at the start of a call: attempts begun, attempts failed, remote
\* calls made, remote calls failed, and the history the call started with
NoTally(h) ==
    [attempts |-> 0, failedAttempts |-> 0, calls |-> 0, failedCalls |-> 0,
     histAtCall |-> h, blocks |-> 0, writes |-> 0]

\* an Error object: its message, and the message of the error it wraps
Err(m) == [message |-> m, cause |-> <<>>]

\* no error was caught yet
NoError == Err(<<>>)

\* the call has not settled
Pending == [kind |-> "pending", error |-> NoError, text |-> <<>>, changes |-> ""]

\* return t, or return {changes: c, explanation: t}
Returned(t, c) == [kind |-> "return", error |-> NoError, text |-> t, changes |-> c]

\* throw e
Thrown(e) == [kind |-> "throw", error |-> e, text |-> <<>>, changes |-> ""]

\* the function ends without a return statement
ReturnedUndefined ==
    [kind |-> "undefined", error |-> NoError, text |-> <<>>, changes |-> ""]

\* the content of the file before upgradeFile runs
OriginalContent == <<"o">>

\* the command loop does not run
TurnOff ==
    /\ chunks = <<>> /\ chunksLeft = <<>> /\ responseText = <<>>
    /\ turnPc = "off" /\ chatHistory = <<>>

\* nothing but the scanners and the retry wrappers runs
RegexOff == originalFilePath = Null

\* generateAdvancedCodeInsights does not run
InsightOff ==
    /\ insightStack = <<>> /\ insightOutcomes = <<>> /\ insightWaits = <<>>
    /\ insightPc = "off" /\ insightResult = "none"

\* createComponent does not run
ComponentOff ==
    /\ compVersion = 0 /\ compPc = "off" /\ compLog = <<>>
    /\ componentContent = <<>> /\ compSaves = 0

\* no real-time session runs
SessionOff ==
    /\ watchedFile = <<>> /\ lastWriter = "none" /\ previousContent = <<>>
    /\ changeUnseen = FALSE /\ debounceArmed = FALSE /\ rounds = <<>>
    /\ modelCalls = 0 /\ userEdits = 0

LateOff == ComponentOff /\ SessionOff

AuxOff == TurnOff /\ RegexOff /\ InsightOff /\ LateOff

\* the command loop does not run
LoopOff ==
    /\ loopPc = "off" /\ loopConsole = <<>> /\ commands = 0
    /\ currentProject = FALSE
    /\ AuxOff

\* no retry wrapper runs
RetryOff ==
    /\ wrapper = "none"
    /\ maxAttempts = 0
    /\ prompt = [kind |-> "string", text |-> ""]
    /\ rpc = "off"
    /\ attempt = 0
    /\ retriesLeft = 0
    /\ backoffI = 0
    /\ conversationHistory = <<>>
    /\ performanceMetrics = {}
    /\ waits = <<>>
    /\ tally = NoTally(<<>>)
    /\ turns = 0
    /\ lastError = NoError
    /\ handed = Pending
    /\ targetFile = OriginalContent
    /\ aiResponse = <<>>

InitScan ==
    [currentFilePath |-> Null, currentFileContent |-> <<>>, ops |-> <<>>,
     console |-> <<>>, files |-> <<>>, dirs |-> {<<".">>}, codebase |-> <<>>, thrown |-> FALSE]

Init ==
    /\ \/ /\ directives = <<>>
          /\ \E ls \in RawLineSeqs : response = Join(ls, NL)
          /\ scanner \in Scanners
       \/ /\ directives \in DirectiveSeqs
          /\ response = Render(directives)
          /\ scanner = "AiBuild"
    /\ lines = <<>>
    /\ i = 0
    /\ scan = InitScan
    /\ pc = "start"
    /\ result = [type |-> "pending", list |-> <<>>]
    /\ RetryOff
    /\ LoopOff

\* ----------------------------------------------------------------- actions
\* const lines = response.split('\n'); currentFilePath = null; content = []
Split ==
    /\ pc = "start"
    /\ lines' = SplitOn(response, NL)
    /\ i' = 1
    /\ pc' = "loop"
    /\ UNCHANGED <<retryVars, loopVars>>
    /\ UNCHANGED <<response, directives, scanner, scan, result>>

\* AiBuild.js processFileCreation: one line of the loop
AiBuildLine ==
    /\ pc = "loop" /\ scanner = "AiBuild" /\ i <= Len(lines)
    /\ \E io \in IoOutcomes : scan' = processFileCreationLine(scan, lines[i], io)
    /\ i' = i + 1
    /\ UNCHANGED <<retryVars, loopVars>>
    /\ UNCHANGED <<response, directives, scanner, lines, pc, result>>

\* AiBuild.js processFileCreation: after the loop, and the return
AiBuildEnd ==
    /\ pc = "loop" /\ scanner = "AiBuild" /\ i > Len(lines)
    /\ \E io \in IoOutcomes : scan' = processFileCreationEnd(scan, io)
    /\ pc' = "done"
    /\ result' = Undefined
    /\ UNCHANGED <<retryVars, loopVars>>
    /\ UNCHANGED <<response, directives, scanner, lines, i>>

\* advanced_self_upgrading_assistant.js processFileCreation: one line
AssistantLine ==
    /\ pc = "loop" /\ scanner = "Assistant" /\ i <= Len(lines)
    /\ \E io \in IoOutcomes :
          scan' = processFileCreationAssistantLine(scan, lines[i], io)
    /\ i' = i + 1
    /\ pc' = IF scan'.thrown THEN "thrown" ELSE "loop"
    /\ UNCHANGED <<retryVars, loopVars>>
    /\ UNCHANGED <<response, directives, scanner, lines, result>>

\* advanced_self_upgrading_assistant.js processFileCreation: after the loop
AssistantEnd ==
    /\ pc = "loop" /\ scanner = "Assistant" /\ i > Len(lines)
    /\ \E io \in IoOutcomes : scan' = processFileCreationAssistantEnd(scan, io)
    /\ pc' = IF scan'.thrown THEN "thrown" ELSE "done"
    /\ result' = IF scan'.thrown THEN result ELSE Undefined
    /\ UNCHANGED <<retryVars, loopVars>>
    /\ UNCHANGED <<response, directives, scanner, lines, i>>

\* UltraAdvancedWebGenerator.js implementEvolution: one line
EvolutionLine ==
    /\ pc = "loop" /\ scanner = "Evolution" /\ i <= Len(lines)
    /\ \E io \in IoOutcomes : scan' = implementEvolutionLine(scan, lines[i], io)
    /\ i' = i + 1
    /\ pc' = IF scan'.thrown THEN "thrown" ELSE "loop"
    /\ UNCHANGED <<retryVars, loopVars>>
    /\ UNCHANGED <<response, directives, scanner, lines, result>>

\* UltraAdvancedWebGenerator.js implementEvolution: after the loop
EvolutionEnd ==
    /\ pc = "loop" /\ scanner = "Evolution" /\ i > Len(lines)
    /\ \E io \in IoOutcomes : scan' = implementEvolutionEnd(scan, io)
    /\ pc' = IF scan'.thrown THEN "thrown" ELSE "done"
    /\ result' = IF scan'.thrown THEN result ELSE Undefined
    /\ UNCHANGED <<retryVars, loopVars>>
    /\ UNCHANGED <<response, directives, scanner, lines, i>>

Next ==
    \/ Split
    \/ AiBuildLine \/ AiBuildEnd
    \/ AssistantLine \/ AssistantEnd
    \/ EvolutionLine \/ EvolutionEnd

Spec == Init /\ [][Next]_vars

\* ------------------------------------- AiBuild.js scanner on layout cases
\* lines for the layout of a file block: two file-open markers, the close
\* marker, a folder directive, a blank line, padded text, a tagged fence
EdgeLines ==
    { FilePrefix \o <<SP, "a">>,
      FilePrefix \o <<"b">>,
      <<BT>>,
      FolderPrefix \o <<"d", BT>>,
      <<>>,
      <<SP, "y", SP>>,
      <<BT, "js">> }

EdgeLineSeqs == UNION {[1..n -> EdgeLines] : n \in 1..MaxEdgeLines}

EdgeInit ==
    /\ directives = <<>>
    /\ \E ls \in EdgeLineSeqs : response = Join(ls, NL)
    /\ scanner = "AiBuild"
    /\ lines = <<>>
    /\ i = 0
    /\ scan = InitScan
    /\ pc = "start"
    /\ result = [type |-> "pending", list |-> <<>>]
    /\ RetryOff
    /\ LoopOff

EdgeNext == Split \/ AiBuildLine \/ AiBuildEnd

EdgeSpec == EdgeInit /\ [][EdgeNext]_vars

\* ---------------------------------------------------------- retry wrappers
Wrappers == {"Website", "UpgradePlan", "Backoff", "UpgradeFile"}

\* let retries = 3 in generateUpgradePlan
UpgradePlanRetries == 3

\* limitConversationHistory(maxMessages = 10)
MaxMessages == 10

\* await delay(5000) in generateUpgradePlan and in upgradeFile
FixedDelay == 5000

\* let retries = 3 in upgradeFile
UpgradeFileRetries == 3

\* the texts the model answers an upgrade prompt with: prose only; a code
\* block between prose; a fence pair on one line; an empty code block
AiResponses ==
    {<<"x">>,
     <<"x", BT, "js", NL, SP, "c", SP, NL, BT, SP, "w">>,
     <<BT, "c", BT>>,
     <<BT, NL, BT>>}

RECURSIVE IndexFrom(_, _, _)
\* the first position at or after k where s holds t, 0 when there is none
IndexFrom(s, t, k) ==
    IF k > Len(s) THEN 0 ELSE IF s[k] = t THEN k ELSE IndexFrom(s, t, k + 1)

\* String.prototype.match found nothing: null
NoMatch == [found |-> FALSE, captured |-> <<>>]

\* aiResponse.match of a fence, anything up to the first newline, a lazily
\* captured group, and the next fence
CodeBlock(s) ==
    LET p == IndexFrom(s, BT, 1)
        n == IF p = 0 THEN 0 ELSE IndexFrom(s, NL, p + 1)
        q == IF n = 0 THEN 0 ELSE IndexFrom(s, BT, n + 1)
    IN  IF q = 0 THEN NoMatch
        ELSE [found |-> TRUE, captured |-> SubSeq(s, n + 1, q - 1)]

\* variant: the file is written whether or not a code block was found
ShouldWrite_Always(match) == TRUE

\* if (match) in upgradeFile
ShouldWrite(match) == match.found

\* diffSummary: "A lines added, R lines removed, C lines changed", the counts
\* left open
DiffSummary == "lines added, removed, changed"

\* aiResponse.split(fence).pop().trim()
Explanation(s) == LET parts == SplitOn(s, BT) IN Trim(parts[Len(parts)])

\* prompts: strings, and the object splitLongResponse passes
Prompts ==
    {[kind |-> "string", text |-> "p1"], [kind |-> "string", text |-> "p2"],
     [kind |-> "object", text |-> "p1"]}

\* the text the remote service answers with
ResponseText == "r"

\* Math.random() * 1000, in ms
Jitters == {0, 999}

RECURSIVE Pow2(_)
\* variant: the delay grows linearly
Pow2_Linear(n) == 2 * n

\* Math.pow(2, n)
Pow2(n) == IF n = 0 THEN 1 ELSE 2 * Pow2(n - 1)

\* what one attempt of generateAIResponse meets at the remote service:
\* the stream arrives whole; the stream breaks while it is read;
\* sendMessageStream is rejected and the sendMessage fallback answers;
\* both are rejected
RemoteOutcomes == {"streamOk", "streamBroken", "fallbackOk", "bothFail"}

\* variant: the oldest entries are kept
limitConversationHistory_KeepOldest(h) ==
    IF Len(h) > MaxMessages THEN SubSeq(h, 1, MaxMessages) ELSE h

\* limitConversationHistory: keep the last maxMessages entries
limitConversationHistory(h) ==
    IF Len(h) > MaxMessages THEN SubSeq(h, Len(h) - MaxMessages + 1, Len(h)) ELSE h

\* if (length > 0) pop()
PopIfAny(h) == IF Len(h) > 0 THEN SubSeq(h, 1, Len(h) - 1) ELSE h

\* the two guarded pops of the catch block of generateAIResponse
RemoveLastInteraction(h) == PopIfAny(PopIfAny(h))

\* the messages of the errors the remote service and the filesystem raise
ErrorMessages == {"e1", "e2"}

\* new Error(`Failed to generate AI response after ${retries} attempts`)
FailedAfter(retries) ==
    Err(<<"Failed to generate AI response after ", ToString(retries), " attempts">>)

\* variant: the catch block always retries
CanRetry_Always(a, retries) == TRUE

\* variant: the error is rethrown one attempt early
CanRetry_OneEarly(a, retries) == a + 1 < retries

\* if (attempt < retries) in the catch block of generateAIResponse
CanRetry(a, retries) == a < retries

RetryInit ==
    /\ response = <<>> /\ directives = <<>> /\ scanner = "none"
    /\ lines = <<>> /\ i = 0 /\ scan = InitScan /\ pc = "off"
    /\ result = [type |-> "pending", list |-> <<>>]
    /\ wrapper \in Wrappers
    /\ maxAttempts \in IF wrapper = "UpgradePlan" THEN {UpgradePlanRetries}
                       ELSE IF wrapper = "UpgradeFile" THEN {UpgradeFileRetries}
                       ELSE 0..MaxRetries
    /\ prompt = [kind |-> "string", text |-> ""]
    /\ rpc = "idle"
    /\ attempt = 0 /\ retriesLeft = 0 /\ backoffI = 0
    /\ conversationHistory = <<>>
    /\ performanceMetrics = {}
    /\ waits = <<>>
    /\ tally = NoTally(<<>>)
    /\ turns = 0
    /\ lastError = NoError
    /\ handed = Pending
    /\ targetFile = OriginalContent
    /\ aiResponse = <<>>
    /\ LoopOff

\* generateAIResponse(prompt, retries) is called: for (let attempt = 1; ...
WebCall ==
    /\ wrapper = "Website" /\ rpc # "attempting" /\ turns < MaxTurns
    /\ prompt' \in Prompts
    /\ attempt' = 1
    /\ rpc' = "attempting"
    /\ waits' = <<>>
    /\ tally' = NoTally(conversationHistory)
    /\ turns' = turns + 1
    /\ lastError' = NoError
    /\ handed' = Pending
    /\ UNCHANGED <<wrapper, maxAttempts, retriesLeft, backoffI,
                   conversationHistory, performanceMetrics>>
    /\ UNCHANGED <<targetFile, aiResponse>>
    /\ UNCHANGED <<scanVars, loopVars>>

\* generateAIResponse: one iteration of the for loop, try and catch
WebAttempt ==
    /\ wrapper = "Website" /\ rpc = "attempting" /\ attempt <= maxAttempts
    /\ \E out \in RemoteOutcomes, e \in ErrorMessages :
        LET ncalls == IF out \in {"streamOk", "streamBroken"} THEN 1 ELSE 2
            nfailed == IF out = "streamOk" THEN 0
                       ELSE IF out = "bothFail" THEN 2 ELSE 1
            gotText == out \in {"streamOk", "fallbackOk"}
            pushed == limitConversationHistory(
                          conversationHistory \o
                          <<[role |-> "user", text |-> prompt],
                            [role |-> "model", text |-> ResponseText]>>)
            h1 == IF gotText THEN pushed ELSE conversationHistory
            \* prompt.slice(0, 50) raises a TypeError unless prompt is a string
            ok == gotText /\ prompt.kind = "string"
            \* the error the catch block receives
            error == IF gotText THEN Err(<<"TypeError">>) ELSE Err(<<e>>)
        IN  /\ tally' = [tally EXCEPT
                           !.attempts = @ + 1,
                           !.failedAttempts = IF ok THEN @ ELSE @ + 1,
                           !.calls = @ + ncalls,
                           !.failedCalls = @ + nfailed]
            /\ IF ok
               THEN /\ rpc' = "success"
                    /\ conversationHistory' = h1
                    /\ performanceMetrics' = performanceMetrics \cup {prompt.text}
                    /\ handed' = Returned(<<ResponseText>>, "")
                    /\ UNCHANGED <<attempt, waits, lastError>>
               ELSE IF CanRetry(attempt, maxAttempts)
               THEN /\ conversationHistory' = RemoveLastInteraction(h1)
                    /\ waits' = Append(waits, Pow2(attempt) * 1000)
                    /\ attempt' = attempt + 1
                    /\ lastError' = error
                    /\ UNCHANGED <<rpc, performanceMetrics, handed>>
               ELSE /\ rpc' = "failure"
                    /\ conversationHistory' = h1
                    /\ lastError' = error
                    /\ handed' = Thrown(FailedAfter(maxAttempts))
                    /\ UNCHANGED <<attempt, waits, performanceMetrics>>
    /\ UNCHANGED <<wrapper, maxAttempts, prompt, retriesLeft, backoffI, turns>>
    /\ UNCHANGED <<targetFile, aiResponse>>
    /\ UNCHANGED <<scanVars, loopVars>>

\* generateAIResponse: the loop condition attempt <= retries is false and the
\* function ends without a return
WebFallThrough ==
    /\ wrapper = "Website" /\ rpc = "attempting" /\ attempt > maxAttempts
    /\ rpc' = "fellThrough"
    /\ handed' = ReturnedUndefined
    /\ UNCHANGED lastError
    /\ UNCHANGED <<wrapper, maxAttempts, prompt, attempt, retriesLeft, backoffI,
                   conversationHistory, performanceMetrics, waits, tally, turns>>
    /\ UNCHANGED <<targetFile, aiResponse>>
    /\ UNCHANGED <<scanVars, loopVars>>

\* generateUpgradePlan is called: let retries = 3
UpgradePlanCall ==
    /\ wrapper = "UpgradePlan" /\ rpc = "idle"
    /\ retriesLeft' = UpgradePlanRetries
    /\ rpc' = "attempting"
    /\ UNCHANGED <<lastError, handed>>
    /\ UNCHANGED <<wrapper, maxAttempts, prompt, attempt, backoffI,
                   conversationHistory, performanceMetrics, waits, tally, turns>>
    /\ UNCHANGED <<targetFile, aiResponse>>
    /\ UNCHANGED <<scanVars, loopVars>>

\* generateUpgradePlan: one iteration of while (retries > 0)
UpgradePlanAttempt ==
    /\ wrapper = "UpgradePlan" /\ rpc = "attempting" /\ retriesLeft > 0
    /\ \E ok \in BOOLEAN, e \in ErrorMessages :
        /\ tally' = [tally EXCEPT
                       !.attempts = @ + 1,
                       !.failedAttempts = IF ok THEN @ ELSE @ + 1,
                       !.calls = @ + 1,
                       !.failedCalls = IF ok THEN @ ELSE @ + 1]
        /\ IF ok
           THEN /\ rpc' = "success"
                /\ handed' = Returned(<<ResponseText>>, "")
                /\ UNCHANGED <<retriesLeft, waits, lastError>>
           ELSE /\ retriesLeft' = retriesLeft - 1
                /\ lastError' = Err(<<e>>)
                /\ IF retriesLeft' = 0
                   THEN /\ rpc' = "failure"
                        /\ handed' = Thrown(Err(<<e>>))
                        /\ UNCHANGED waits
                   ELSE /\ waits' = Append(waits, FixedDelay)
                        /\ UNCHANGED <<rpc, handed>>
    /\ UNCHANGED <<wrapper, maxAttempts, prompt, attempt, backoffI,
                   conversationHistory, performanceMetrics, turns>>
    /\ UNCHANGED <<targetFile, aiResponse>>
    /\ UNCHANGED <<scanVars, loopVars>>

\* exponentialBackoff(func, maxRetries) is called: for (let i = 0; ...
BackoffCall ==
    /\ wrapper = "Backoff" /\ rpc = "idle"
    /\ backoffI' = 0
    /\ rpc' = "attempting"
    /\ UNCHANGED <<lastError, handed>>
    /\ UNCHANGED <<wrapper, maxAttempts, prompt, attempt, retriesLeft,
                   conversationHistory, performanceMetrics, waits, tally, turns>>
    /\ UNCHANGED <<targetFile, aiResponse>>
    /\ UNCHANGED <<scanVars, loopVars>>

\* exponentialBackoff: one iteration of the for loop
BackoffAttempt ==
    /\ wrapper = "Backoff" /\ rpc = "attempting" /\ backoffI < maxAttempts
    /\ \E ok \in BOOLEAN, jitter \in Jitters, e \in ErrorMessages :
        /\ tally' = [tally EXCEPT
                       !.attempts = @ + 1,
                       !.failedAttempts = IF ok THEN @ ELSE @ + 1,
                       !.calls = @ + 1,
                       !.failedCalls = IF ok THEN @ ELSE @ + 1]
        /\ IF ok
           THEN /\ rpc' = "success"
                /\ handed' = Returned(<<ResponseText>>, "")
                /\ UNCHANGED <<backoffI, waits, lastError>>
           ELSE IF backoffI = maxAttempts - 1
           THEN /\ rpc' = "failure"
                /\ lastError' = Err(<<e>>)
                /\ handed' = Thrown(Err(<<e>>))
                /\ UNCHANGED <<backoffI, waits>>
           ELSE /\ waits' = Append(waits, Pow2(backoffI) * 1000 + jitter)
                /\ backoffI' = backoffI + 1
                /\ lastError' = Err(<<e>>)
                /\ UNCHANGED <<rpc, handed>>
    /\ UNCHANGED <<wrapper, maxAttempts, prompt, attempt, retriesLeft,
                   conversationHistory, performanceMetrics, turns>>
    /\ UNCHANGED <<targetFile, aiResponse>>
    /\ UNCHANGED <<scanVars, loopVars>>

\* exponentialBackoff: the loop condition i < maxRetries is false and the
\* function ends without a return
BackoffFallThrough ==
    /\ wrapper = "Backoff" /\ rpc = "attempting" /\ backoffI >= maxAttempts
    /\ rpc' = "fellThrough"
    /\ handed' = ReturnedUndefined
    /\ UNCHANGED lastError
    /\ UNCHANGED <<wrapper, maxAttempts, prompt, attempt, retriesLeft, backoffI,
                   conversationHistory, performanceMetrics, waits, tally, turns>>
    /\ UNCHANGED <<targetFile, aiResponse>>
    /\ UNCHANGED <<scanVars, loopVars>>

\* upgradeFile is called: fs.readFile(filePath) outside any try, let retries = 3
UpgradeFileCall ==
    /\ wrapper = "UpgradeFile" /\ rpc = "idle"
    /\ \E readOk \in BOOLEAN, e \in ErrorMessages :
          IF readOk
          THEN /\ retriesLeft' = UpgradeFileRetries
               /\ rpc' = "attempting"
               /\ UNCHANGED handed
          ELSE /\ rpc' = "rejected"
               /\ handed' = Thrown(Err(<<e>>))
               /\ UNCHANGED retriesLeft
    /\ UNCHANGED <<wrapper, maxAttempts, prompt, attempt, backoffI,
                   conversationHistory, performanceMetrics, waits, tally, turns,
                   lastError, targetFile, aiResponse>>
    /\ UNCHANGED <<scanVars, loopVars>>

\* upgradeFile: one iteration of while (retries > 0), try and catch
UpgradeFileAttempt ==
    /\ wrapper = "UpgradeFile" /\ rpc = "attempting" /\ retriesLeft > 0
    /\ \E got \in BOOLEAN, resp \in AiResponses, writeOk \in BOOLEAN,
          e \in ErrorMessages :
        LET match == IF got THEN CodeBlock(resp) ELSE NoMatch
            upgradedCode == Trim(match.captured)
            wrote == got /\ ShouldWrite(match) /\ writeOk
            error == IF got /\ ~ShouldWrite(match)
                     THEN Err(<<"Failed to extract upgraded code from AI response">>)
                     ELSE Err(<<e>>)
        IN  /\ aiResponse' = IF got THEN resp ELSE <<>>
            /\ tally' = [tally EXCEPT
                           !.attempts = @ + 1,
                           !.failedAttempts = IF wrote THEN @ ELSE @ + 1,
                           !.calls = @ + 1,
                           !.failedCalls = IF got THEN @ ELSE @ + 1,
                           !.blocks = IF match.found THEN @ + 1 ELSE @,
                           !.writes = IF wrote THEN @ + 1 ELSE @]
            /\ IF wrote
               THEN /\ targetFile' = upgradedCode
                    /\ rpc' = "success"
                    /\ handed' = Returned(Explanation(resp), DiffSummary)
                    /\ waits' = Append(waits, FixedDelay)
                    /\ UNCHANGED <<retriesLeft, lastError>>
               ELSE /\ retriesLeft' = retriesLeft - 1
                    /\ lastError' = error
                    /\ UNCHANGED targetFile
                    /\ IF retriesLeft' = 0
                       THEN /\ rpc' = "failure"
                            /\ handed' = Returned(<<"Error: ">> \o error.message,
                                                  "Upgrade failed")
                            /\ waits' = Append(waits, FixedDelay)
                       ELSE /\ waits' = waits \o <<FixedDelay, FixedDelay>>
                            /\ UNCHANGED <<rpc, handed>>
    /\ UNCHANGED <<wrapper, maxAttempts, prompt, attempt, backoffI,
                   conversationHistory, performanceMetrics, turns>>
    /\ UNCHANGED <<scanVars, loopVars>>

RetryNext ==
    \/ WebCall \/ WebAttempt \/ WebFallThrough
    \/ UpgradePlanCall \/ UpgradePlanAttempt
    \/ BackoffCall \/ BackoffAttempt \/ BackoffFallThrough
    \/ UpgradeFileCall \/ UpgradeFileAttempt

RetrySpec == RetryInit /\ [][RetryNext]_vars

\* ------------------------------------------------------------ command loop
\* the command line is read, and the retry wrappers and scanners are idle
LoopInit ==
    /\ response = <<>> /\ directives = <<>> /\ scanner = "none"
    /\ lines = <<>> /\ i = 0 /\ scan = InitScan /\ pc = "off"
    /\ result = [type |-> "pending", list |-> <<>>]
    /\ RetryOff
    /\ loopPc = "prompt" /\ loopConsole = <<>> /\ commands = 0
    /\ currentProject = FALSE
    /\ AuxOff

\* what one command printed
Report(cmd, what) == [cmd |-> cmd, report |-> what]

\* const userInput = await question(...) while the loop runs
Reads == loopPc = "prompt" /\ commands < MaxCommands

\* nothing but the loop changes
LoopFrame == UNCHANGED <<scanVars, retryVars, auxVars>>

\* runTests(testCommand, chalk), the declaration at line 790 that the name
\* runTests is bound to: both branches call a method of chalk before the try
runTests(chalkGiven, execOk) ==
    IF ~chalkGiven THEN [threw |-> TRUE, report |-> "TypeError"]
    ELSE IF ~currentProject THEN [threw |-> FALSE, report |-> "No active project"]
    ELSE IF execOk THEN [threw |-> FALSE, report |-> "Test results"]
    ELSE [threw |-> FALSE, report |-> "Error running tests"]

\* upgradeSelf: where it stops
UpgradeSelfPaths == {"readFails", "backupFails", "writeFails", "written"}

\* a command whose operation runs inside try/catch in the loop
Guarded(cmd, verbs) ==
    /\ Reads
    /\ \E verb \in verbs, ok \in BOOLEAN :
          loopConsole' = Append(loopConsole,
              Report(cmd, IF verb = "other" THEN "Invalid operation"
                          ELSE IF ok THEN "done" ELSE "Error performing operation"))
    /\ commands' = commands + 1
    /\ UNCHANGED loopPc

\* exit
CmdExit ==
    /\ Reads
    /\ loopPc' = "exited"
    /\ loopConsole' = Append(loopConsole, Report("exit", "Goodbye!"))
    /\ commands' = commands + 1
    /\ UNCHANGED currentProject
    /\ LoopFrame

\* ::upgrade: await upgradeSelf(chalk, model) outside any try; upgradeSelf
\* returns early when upgrade.js cannot be read, backed up or written, and
\* otherwise calls runTests(chalk) outside any try
CmdUpgrade ==
    /\ Reads
    /\ \E path \in UpgradeSelfPaths, restart \in BOOLEAN :
          IF path # "written"
          THEN /\ loopConsole' = Append(loopConsole, Report("::upgrade", path))
               /\ UNCHANGED loopPc
          ELSE LET t == runTests(FALSE, TRUE)
               IN  IF t.threw
                   THEN /\ loopPc' = "fatal"
                        /\ loopConsole' =
                              Append(loopConsole, Report("::upgrade", "Fatal error"))
                   ELSE /\ loopPc' = IF restart THEN "restarted" ELSE "prompt"
                        /\ loopConsole' =
                              Append(loopConsole, Report("::upgrade", t.report))
    /\ commands' = commands + 1
    /\ UNCHANGED currentProject
    /\ LoopFrame

\* ::active <file>: the session's promise has its own .catch
CmdActive ==
    /\ Reads
    /\ \E what \in {"Please provide a file path", "started", "Session error"} :
          loopConsole' = Append(loopConsole, Report("::active", what))
    /\ commands' = commands + 1
    /\ UNCHANGED <<loopPc, currentProject>>
    /\ LoopFrame

\* help
CmdHelp ==
    /\ Reads
    /\ loopConsole' = Append(loopConsole, Report("help", "Available commands"))
    /\ commands' = commands + 1
    /\ UNCHANGED <<loopPc, currentProject>>
    /\ LoopFrame

\* project:<verb>; createProject sets currentProject before anything can fail
CmdProject ==
    /\ Reads
    /\ \E verb \in {"create", "install", "other"}, ok \in BOOLEAN :
          /\ loopConsole' = Append(loopConsole,
                 Report("project", IF verb = "other" THEN "Invalid operation"
                                   ELSE IF ok THEN "done"
                                   ELSE "Error performing operation"))
          /\ currentProject' = IF verb = "create" THEN TRUE ELSE currentProject
    /\ commands' = commands + 1
    /\ UNCHANGED loopPc
    /\ LoopFrame

\* file:<verb>
CmdFile ==
    /\ Guarded("file", {"read", "upgrade", "other"})
    /\ UNCHANGED currentProject
    /\ LoopFrame

\* git:<verb>
CmdGit ==
    /\ Guarded("git", {"any"})
    /\ UNCHANGED currentProject
    /\ LoopFrame

\* snippet:<verb>
CmdSnippet ==
    /\ Guarded("snippet", {"save", "list", "other"})
    /\ UNCHANGED currentProject
    /\ LoopFrame

\* test:run <command>: runTests(args.join(' '), chalk) outside any try
CmdTest ==
    /\ Reads
    /\ \E run \in BOOLEAN, execOk \in BOOLEAN :
          LET t == runTests(TRUE, execOk)
          IN  IF ~run
              THEN /\ loopConsole' =
                         Append(loopConsole, Report("test", "Invalid operation"))
                   /\ UNCHANGED loopPc
              ELSE /\ loopConsole' = Append(loopConsole, Report("test", t.report))
                   /\ loopPc' = IF t.threw THEN "fatal" ELSE "prompt"
    /\ commands' = commands + 1
    /\ UNCHANGED currentProject
    /\ LoopFrame

\* folder:<verb>
CmdFolder ==
    /\ Guarded("folder", {"upgrade", "other"})
    /\ UNCHANGED currentProject
    /\ LoopFrame

\* anything else is sent to the model, inside try/catch
CmdAsk ==
    /\ Guarded("ask", {"any"})
    /\ UNCHANGED currentProject
    /\ LoopFrame

LoopNext ==
    \/ CmdExit \/ CmdUpgrade \/ CmdActive \/ CmdHelp
    \/ CmdProject \/ CmdFile \/ CmdGit \/ CmdSnippet
    \/ CmdTest \/ CmdFolder \/ CmdAsk

LoopSpec == LoopInit /\ [][LoopNext]_vars

\* ------------------------------------------------ the free-form AI turn
\* texts the model streams: a file directive, a folder and a file directive,
\* prose
StreamTexts ==
    { FilePrefix \o <<"a", NL, "x", NL, BT>>,
      FolderPrefix \o <<"d", NL>> \o FilePrefix \o <<"d", SLASH, "b", NL, BT>>,
      <<"x">> }

RECURSIVE Splits(_, _)
\* the ways a text arrives in at most n non-empty chunks
Splits(t, n) ==
    IF n <= 1 \/ Len(t) <= 1 THEN {<<t>>}
    ELSE {<<t>>} \cup
         UNION {{<<SubSeq(t, 1, k)>> \o r :
                    r \in Splits(SubSeq(t, k + 1, Len(t)), n - 1)} :
                k \in 1..(Len(t) - 1)}

RECURSIVE Concat(_)
\* the chunks put together in order
Concat(cs) == IF cs = <<>> THEN <<>> ELSE Head(cs) \o Concat(Tail(cs))

\* variant: each chunk replaces the text received so far
Accumulate_Replace(text, chunkText) == chunkText

\* responseText += chunkText
Accumulate(text, chunkText) == text \o chunkText

TurnInit ==
    /\ response = <<>> /\ directives = <<>> /\ scanner = "AiBuild"
    /\ lines = <<>> /\ i = 0 /\ scan = InitScan /\ pc = "off"
    /\ result = [type |-> "pending", list |-> <<>>]
    /\ RetryOff
    /\ loopPc = "off" /\ loopConsole = <<>> /\ commands = 0
    /\ currentProject = FALSE
    /\ \E t \in StreamTexts : chunks \in Splits(t, MaxChunks)
    /\ chunksLeft = chunks
    /\ responseText = <<>>
    /\ turnPc = "asking"
    /\ chatHistory = <<>>
    /\ RegexOff /\ InsightOff /\ LateOff

\* nothing but the AI turn changes
TurnFrame ==
    UNCHANGED <<retryVars, loopPc, loopConsole, commands, currentProject,
                regexVars, insightVars, lateVars>>

\* const result = await chat.sendMessageStream(...); let responseText = ''
TurnAsk ==
    /\ turnPc = "asking"
    /\ \E ok \in BOOLEAN : turnPc' = IF ok THEN "streaming" ELSE "caught"
    /\ UNCHANGED <<chunks, chunksLeft, responseText, chatHistory>>
    /\ UNCHANGED scanVars
    /\ TurnFrame

\* one iteration of for await (const chunk of result.stream); the stream may
\* break, which leaves the try block
TurnChunk ==
    /\ turnPc = "streaming" /\ chunksLeft # <<>>
    /\ \E ok \in BOOLEAN :
          IF ok
          THEN /\ responseText' = Accumulate(responseText, Head(chunksLeft))
               /\ chunksLeft' = Tail(chunksLeft)
               /\ UNCHANGED turnPc
          ELSE /\ turnPc' = "caught"
               /\ UNCHANGED <<responseText, chunksLeft>>
    /\ UNCHANGED <<chunks, chatHistory>>
    /\ UNCHANGED scanVars
    /\ TurnFrame

\* the stream has ended: await processFileCreation(responseText, chalk)
TurnScan ==
    /\ turnPc = "streaming" /\ chunksLeft = <<>>
    /\ turnPc' = "scanning"
    /\ response' = responseText
    /\ pc' = "start"
    /\ UNCHANGED <<chunks, chunksLeft, responseText, chatHistory>>
    /\ UNCHANGED <<directives, scanner, lines, i, scan, result>>
    /\ TurnFrame

\* processFileCreation has returned: the two chatHistory.push calls
TurnPush ==
    /\ turnPc = "scanning" /\ pc = "done"
    /\ chatHistory' = chatHistory \o <<"user", "model">>
    /\ turnPc' = "done"
    /\ UNCHANGED <<chunks, chunksLeft, responseText>>
    /\ UNCHANGED scanVars
    /\ TurnFrame

TurnNext ==
    \/ TurnAsk \/ TurnChunk \/ TurnScan \/ TurnPush
    \/ Split \/ AiBuildLine \/ AiBuildEnd

TurnSpec == TurnInit /\ [][TurnNext]_vars

\* ------------------------------------- AiBuild.js: the regex-based scanner
\* pieces of a response: a folder directive on one line, two file blocks,
\* prose
RegexPieces ==
    { FolderPrefix \o <<"d", BT>>,
      FilePrefix \o <<"a", NL, SP, "x", NL, BT>>,
      FilePrefix \o <<"d", SLASH, "b", NL, "y", NL, BT>>,
      <<"x">> }

RegexTexts ==
    {Join(ps, NL) : ps \in UNION {[1..n -> RegexPieces] : n \in 1..MaxDirectives}}

\* no match at this position
NoDirective == [found |-> FALSE, start |-> 0, path |-> <<>>, content |-> <<>>, next |-> 0]

\* fileCreationRegex tried at position p: the prefix, a path of one or more
\* characters up to the first newline, and the content up to the next fence
FileMatchAt(s, p) ==
    LET n == IndexFrom(s, NL, p + 3)
        q == IF n = 0 THEN 0 ELSE IndexFrom(s, BT, n + 1)
    IN  IF p + 3 <= Len(s) /\ SubSeq(s, p, p + 2) = FilePrefix /\ n > p + 3 /\ q > 0
        THEN [found |-> TRUE, start |-> p, path |-> SubSeq(s, p + 3, n - 1),
              content |-> SubSeq(s, n + 1, q - 1), next |-> q + 1]
        ELSE NoDirective

\* folderCreationRegex tried at position p: the prefix and a path of one or
\* more characters, none a newline, up to the next fence
FolderMatchAt(s, p) ==
    LET q == IndexFrom(s, BT, p + 4)
        n == IndexFrom(s, NL, p + 3)
    IN  IF p + 3 <= Len(s) /\ SubSeq(s, p, p + 2) = FolderPrefix /\ q > 0
           /\ (n = 0 \/ n > q)
        THEN [found |-> TRUE, start |-> p, path |-> SubSeq(s, p + 3, q - 1),
              content |-> <<>>, next |-> q + 1]
        ELSE NoDirective

RECURSIVE FileMatches(_, _)
\* the successive results of fileCreationRegex.exec from position k on
FileMatches(s, k) ==
    IF k > Len(s) THEN <<>>
    ELSE LET m == FileMatchAt(s, k)
         IN  IF m.found THEN <<m>> \o FileMatches(s, m.next)
             ELSE FileMatches(s, k + 1)

RECURSIVE FolderMatches(_, _)
\* the successive results of folderCreationRegex.exec from position k on
FolderMatches(s, k) ==
    IF k > Len(s) THEN <<>>
    ELSE LET m == FolderMatchAt(s, k)
         IN  IF m.found THEN <<m>> \o FolderMatches(s, m.next)
             ELSE FolderMatches(s, k + 1)

RECURSIVE Normalize(_)
\* path.normalize: a run of separators becomes one
Normalize(p) ==
    IF Len(p) < 2 THEN p
    ELSE IF p[1] = SLASH /\ p[2] = SLASH THEN Normalize(Tail(p))
    ELSE <<p[1]>> \o Normalize(Tail(p))

\* createFileOrFolder, the declaration at line 344: a folder when content is
\* null, a file otherwise; every error is caught and printed
createFileOrFolder(st, pathString, content, io) ==
    LET normalizedPath == Normalize(pathString)
        r == IF content = Null THEN Mkdir(st, normalizedPath, io)
             ELSE MkdirAndWrite(st, normalizedPath, content, io)
    IN  IF r.thrown
        THEN Printed([r EXCEPT !.thrown = FALSE], "error",
                     "Error creating file/folder", pathString)
        ELSE Printed(r, "log",
                     IF content = Null THEN "Created folder"
                     ELSE "Created/Updated file", normalizedPath)

\* await fs.writeFile(filePath, fileContent) of the original file: no mkdir,
\* no catch of its own
updateOriginal(st, filePath, content, io) ==
    LET ok == /\ io # "writeFails" /\ filePath # <<>>
              /\ filePath \notin st.dirs /\ Dirname(filePath) \in st.dirs
        r == [Logged(st, "writeFile", filePath, content, io, ok) EXCEPT
                 !.files = IF ok THEN (filePath :> content) @@ @ ELSE @,
                 !.thrown = ~ok]
    IN  IF ok THEN Printed(r, "log", "Updated file", filePath) ELSE r

RegexInit ==
    /\ response \in RegexTexts
    /\ directives = <<>>
    /\ scanner = "Regex"
    /\ lines = <<>>
    /\ i = 1
    /\ scan = InitScan
    /\ pc = "files"
    /\ result = [type |-> "pending", list |-> <<>>]
    /\ RetryOff
    /\ loopPc = "off" /\ loopConsole = <<>> /\ commands = 0
    /\ currentProject = FALSE
    /\ TurnOff /\ InsightOff /\ LateOff
    /\ originalFilePath \in {Null, <<"a">>}

\* nothing but the scan changes
RegexFrame ==
    UNCHANGED <<response, directives, scanner, lines, result, retryVars, loopVars>>

\* one iteration of the first while loop: the next file directive
RegexFile ==
    /\ scanner = "Regex" /\ pc = "files"
    /\ i <= Len(FileMatches(response, 1))
    /\ \E io \in IoOutcomes :
          LET match == FileMatches(response, 1)[i]
              filePath == Trim(match.path)
              fileContent == Trim(match.content)
              st1 == IF filePath = originalFilePath
                     THEN updateOriginal(scan, filePath, fileContent, io)
                     ELSE createFileOrFolder(scan, filePath, fileContent, io)
          IN  /\ scan' = [st1 EXCEPT !.thrown = FALSE]
              /\ pc' = IF st1.thrown THEN "caught" ELSE "files"
    /\ i' = i + 1
    /\ RegexFrame

\* fileCreationRegex.exec returns null: the second loop starts
RegexFilesDone ==
    /\ scanner = "Regex" /\ pc = "files"
    /\ i > Len(FileMatches(response, 1))
    /\ pc' = "folders"
    /\ i' = 1
    /\ UNCHANGED scan
    /\ RegexFrame

\* one iteration of the second while loop: the next folder directive
RegexFolder ==
    /\ scanner = "Regex" /\ pc = "folders"
    /\ i <= Len(FolderMatches(response, 1))
    /\ \E io \in IoOutcomes :
          LET match == FolderMatches(response, 1)[i]
          IN  scan' = createFileOrFolder(scan, Trim(match.path), Null, io)
    /\ i' = i + 1
    /\ UNCHANGED pc
    /\ RegexFrame

\* folderCreationRegex.exec returns null: processAIResponse returns
RegexEnd ==
    /\ scanner = "Regex" /\ pc = "folders"
    /\ i > Len(FolderMatches(response, 1))
    /\ pc' = "done"
    /\ UNCHANGED <<i, scan>>
    /\ RegexFrame

RegexNext == RegexFile \/ RegexFilesDone \/ RegexFolder \/ RegexEnd

RegexSpec == RegexInit /\ [][RegexNext]_vars

\* ------ advanced_self_upgrading_assistant.js: generateAdvancedCodeInsights
\* exponentialBackoff(func, maxRetries = 5)
BackoffDefaultRetries == 5

\* what model.generateContent meets: an answer that parses, an answer that
\* does not, a rate-limit error, any other error
InsightOutcomes == {"ok", "unparsable", "429", "other"}

InsightInit ==
    /\ response = <<>> /\ directives = <<>> /\ scanner = "none"
    /\ lines = <<>> /\ i = 0 /\ scan = InitScan /\ pc = "off"
    /\ result = [type |-> "pending", list |-> <<>>]
    /\ RetryOff
    /\ loopPc = "off" /\ loopConsole = <<>> /\ commands = 0
    /\ currentProject = FALSE
    /\ TurnOff /\ RegexOff /\ LateOff
    /\ insightStack = <<"insights">>
    /\ insightOutcomes = <<>>
    /\ insightWaits = <<>>
    /\ insightPc = "running"
    /\ insightResult = "none"

\* nothing but the insight call chain changes
InsightFrame ==
    UNCHANGED <<scanVars, retryVars, loopPc, loopConsole, commands,
                currentProject, turnVars, regexVars, lateVars>>

\* the innermost generateAdvancedCodeInsights calls the model; on a 429 its
\* catch block awaits exponentialBackoff, whose first iteration calls
\* generateAdvancedCodeInsights again at once
InsightRemote ==
    /\ insightPc = "running"
    /\ Len(insightOutcomes) < MaxInsightCalls
    /\ \E out \in InsightOutcomes :
          /\ insightOutcomes' = Append(insightOutcomes, out)
          /\ IF out = "429"
             THEN /\ insightStack' = insightStack \o <<"backoff", "insights">>
                  /\ UNCHANGED <<insightPc, insightResult>>
             ELSE /\ insightPc' = "returning"
                  /\ insightResult' = IF out = "ok" THEN "insights"
                                       ELSE IF out = "unparsable" THEN "{}"
                                       ELSE "undefined"
                  /\ UNCHANGED insightStack
    /\ UNCHANGED insightWaits
    /\ InsightFrame

\* the innermost call returns: generateAdvancedCodeInsights returns what it
\* got (it never throws), exponentialBackoff returns what func returned, so
\* its catch block and its delay are never reached
InsightReturn ==
    /\ insightPc = "returning"
    /\ insightStack' = SubSeq(insightStack, 1, Len(insightStack) - 1)
    /\ insightPc' = IF Len(insightStack) = 1 THEN "done" ELSE "returning"
    /\ UNCHANGED <<insightOutcomes, insightWaits, insightResult>>
    /\ InsightFrame

InsightNext == InsightRemote \/ InsightReturn

InsightSpec == InsightInit /\ [][InsightNext]_vars

\* ================================================================== claims
\* the directives of the rendered text that ask for a filesystem operation
Materialized == SelectSeq(directives, LAMBDA d : d.kind # "prose")

\* the scan of a text rendered from directives has run to its end
GrammarScanDone == pc = "done" /\ scanner = "AiBuild" /\ directives # <<>>

\* C1: for a well-formed text with N folder and M file directives,
\* processFileCreation calls createFolder N times and writeFile M times, each
\* file block once, in the order of the markers in the text.
C1_OneCallPerDirectiveInOrder ==
    GrammarScanDone =>
        /\ Len(scan.ops) = Len(Materialized)
        /\ \A k \in 1..Len(Materialized) :
              IF Materialized[k].kind = "folder"
              THEN scan.ops[k].op = "createFolder"
              ELSE /\ scan.ops[k].op = "writeFile"
                   /\ scan.ops[k].path = Materialized[k].path

C1_Witness ==
    /\ GrammarScanDone
    /\ Len(scan.ops) = 2
    /\ scan.ops[1].op = "writeFile"
    /\ scan.ops[2].op = "createFolder"

\* the characters between the open line and the close line of a file block:
\* the lines with one newline between neighbours, none after the last
RECURSIVE BodyText(_)
BodyText(body) ==
    IF Len(body) = 0 THEN <<>>
    ELSE IF Len(body) = 1 THEN body[1]
    ELSE body[1] \o <<NL>> \o BodyText(Tail(body))

\* C2: round trip: a file-open line for p, the lines L1..Lk and a bare close
\* line make the scan write p with exactly L1..Lk joined by single newlines,
\* untrimmed, with no trailing newline; reading p back yields that content.
C2_RoundTrip ==
    GrammarScanDone =>
        /\ \A k \in 1..Len(Materialized) :
              (Materialized[k].kind = "file" /\ k <= Len(scan.ops)) =>
                  /\ scan.ops[k].path = Materialized[k].path
                  /\ scan.ops[k].content = BodyText(Materialized[k].body)
        /\ (Len(directives) = 1 /\ directives[1].kind = "file"
              /\ Len(scan.ops) = 1 /\ scan.ops[1].ok) =>
                  /\ directives[1].path \in DOMAIN scan.files
                  /\ scan.files[directives[1].path] = BodyText(directives[1].body)

C2_Witness ==
    /\ GrammarScanDone
    /\ Len(directives) = 1
    /\ directives[1].kind = "file"
    /\ directives[1].body = << <<BT, "js">>, <<SP, "y", SP>> >>
    /\ directives[1].path \in DOMAIN scan.files
    /\ scan.files[directives[1].path] = <<BT, "js", NL, SP, "y", SP>>

\* the last file-open line of the text, 0 when there is none
LastOpen ==
    IF \E k \in 1..Len(lines) : StartsWith(lines[k], FilePrefix)
    THEN CHOOSE k \in 1..Len(lines) :
             /\ StartsWith(lines[k], FilePrefix)
             /\ \A m \in (k+1)..Len(lines) : ~StartsWith(lines[m], FilePrefix)
    ELSE 0

\* the text ends inside a file block: a file-open line with a path, and no
\* bare close line after it
OpenAtEnd ==
    /\ LastOpen > 0
    /\ Truthy(MarkerPath(lines[LastOpen]))
    /\ \A m \in (LastOpen+1)..Len(lines) : lines[m] # <<BT>>

\* the number of calls of one helper in the trace
Calls(name) == Cardinality({k \in 1..Len(scan.ops) : scan.ops[k].op = name})

\* C3: when the input ends inside a file block, processFileCreation writes the
\* buffered lines to the block's path once after the last line: the block is
\* neither dropped nor written twice.
C3_UnterminatedBlockFlushedOnce ==
    (pc = "done" /\ scanner = "AiBuild" /\ OpenAtEnd) =>
        LET buffered == SelectSeq(SubSeq(lines, LastOpen + 1, Len(lines)),
                                  LAMBDA l : ~StartsWith(l, FolderPrefix))
            last == scan.ops[Len(scan.ops)]
        IN  /\ Len(scan.ops) > 0
            /\ last.op = "writeFile"
            /\ last.path = MarkerPath(lines[LastOpen])
            /\ last.content = BodyText(buffered)
            /\ Calls("writeFile") =
                  Cardinality({k \in 1..Len(lines) :
                      StartsWith(lines[k], FilePrefix) /\ Truthy(MarkerPath(lines[k]))})

C3_Witness ==
    /\ pc = "done" /\ scanner = "AiBuild" /\ OpenAtEnd
    /\ LastOpen = 1 /\ Len(lines) = 3
    /\ Len(scan.ops) = 1
    /\ scan.ops[1].content = <<"x", NL, SP, "y", SP>>

\* C4: two file directives for one path with different content: after the
\* scan the file holds the content of the later one (whose write succeeded).
C4_LaterDirectiveWins ==
    GrammarScanDone =>
        \A j, k \in 1..Len(Materialized) :
            (/\ j < k
             /\ Materialized[j].kind = "file" /\ Materialized[k].kind = "file"
             /\ Materialized[j].path = Materialized[k].path
             /\ Materialized[j].body # Materialized[k].body
             /\ \A m \in (k+1)..Len(Materialized) :
                    Materialized[m].path # Materialized[k].path
             /\ k <= Len(scan.ops) /\ scan.ops[k].ok) =>
                /\ Materialized[k].path \in DOMAIN scan.files
                /\ scan.files[Materialized[k].path] = BodyText(Materialized[k].body)

C4_Witness ==
    /\ GrammarScanDone
    /\ Len(directives) = 2
    /\ directives[1] = [kind |-> "file", path |-> <<"a">>, body |-> << <<BT, "js">> >>]
    /\ directives[2] = [kind |-> "file", path |-> <<"a">>, body |-> << <<SP, "y", SP>> >>]
    /\ scan.ops[1].ok /\ scan.ops[2].ok
    /\ scan.files[<<"a">>] = <<SP, "y", SP>>

C6_RetrySeesOriginalHistory ==
    (wrapper = "Website" /\ rpc = "attempting") =>
        conversationHistory = tally.histAtCall

\* C7: in every scanner a filesystem failure on one directive is caught for
\* that directive and the scan goes on to the later directives: no scan is
\* ended by the error of a folder creation or a file write.
C7_FailureDoesNotAbortScan ==
    (\E k \in 1..Len(scan.ops) : ~scan.ops[k].ok) =>
        /\ ~scan.thrown
        /\ pc # "thrown"

\* a file-open prefix followed by no path
MalformedOpen(line) ==
    /\ StartsWith(line, FilePrefix)
    /\ Trim(SubSeq(line, Len(FilePrefix) + 1, Len(line))) = <<>>

\* C8: a file-open prefix with no path is plain text: in every scanner state
\* in which processFileCreation reads it, also inside an open file block, it
\* causes no filesystem operation and raises no error.
C8_MalformedMarkerHasNoEffect ==
    [][(/\ pc = "loop" /\ scanner = "AiBuild"
        /\ i <= Len(lines) /\ i' = i + 1
        /\ MalformedOpen(lines[i]))
       => (scan'.ops = scan.ops /\ ~scan'.thrown)]_vars

\* C9: creating a folder that already exists is no failure: createFolder never
\* raises, a folder created once stays present, and a second createFolder for
\* it succeeds unless the system itself refuses the call.
C9_FolderIdempotent ==
    scanner = "AiBuild" =>
        /\ ~scan.thrown
        /\ \A j, k \in 1..Len(scan.ops) :
              (/\ j < k
               /\ scan.ops[j].op = "createFolder" /\ scan.ops[k].op = "createFolder"
               /\ scan.ops[j].path = scan.ops[k].path
               /\ scan.ops[j].ok) =>
                  /\ scan.ops[k].path \in scan.dirs
                  /\ scan.ops[k].io = "ok" => scan.ops[k].ok

C9_Witness ==
    /\ scanner = "AiBuild" /\ pc = "done"
    /\ Len(scan.ops) = 2
    /\ scan.ops[1].op = "createFolder" /\ scan.ops[2].op = "createFolder"
    /\ scan.ops[1].path = scan.ops[2].path
    /\ scan.ops[1].ok /\ scan.ops[2].ok
    /\ scan.ops[1].path \in scan.dirs

\* one outcome per helper call: the path and whether the operation succeeded
Outcomes == [k \in 1..Len(scan.ops) |->
                [path |-> scan.ops[k].path, ok |-> scan.ops[k].ok]]

CarriesLastError ==
    \/ /\ handed.kind = "throw"
       /\ \/ handed.error = lastError
          \/ handed.error.cause = lastError.message
    \/ /\ handed.kind = "return"
       /\ handed.changes = "Upgrade failed"
       /\ handed.text = <<"Error: ">> \o lastError.message

\* C11: when the last allowed attempt of a retry wrapper fails, the error or
\* failure value handed to the caller carries the error raised by that final
\* failed attempt (generateAIResponse, exponentialBackoff, upgradeFile)
C11_TerminalCarriesLastError == rpc = "failure" => CarriesLastError

\* C11 restricted to the wrappers that do hand the last error on
C11_OthersCarryLastError ==
    rpc = "failure" /\ wrapper # "Website" => CarriesLastError

\* C12: in upgradeFile the file is written only in an attempt whose response
\* contained a code block, with the trimmed content of that block; and while no
\* response of the call has contained a code block the file keeps its previous
\* content, the call does not succeed, and once its attempts are used up it
\* returns the failure value to the caller
C12_NoCodeBlockNoWrite ==
    [][wrapper = "UpgradeFile" =>
        /\ tally'.writes > tally.writes =>
              /\ CodeBlock(aiResponse').found
              /\ targetFile' = Trim(CodeBlock(aiResponse').captured)
        /\ tally'.blocks = 0 =>
              /\ targetFile' = OriginalContent
              /\ tally'.writes = 0
              /\ rpc' # "success"
              /\ tally'.attempts > 0 /\ rpc' # "attempting" =>
                    /\ rpc' = "failure"
                    /\ handed'.kind = "return"
                    /\ handed'.changes = "Upgrade failed"]_vars

\* a call of upgradeFile whose responses held no code block, the last one a
\* fence pair on one line, has ended
C12_Witness ==
    /\ wrapper = "UpgradeFile" /\ rpc = "failure"
    /\ tally.blocks = 0
    /\ aiResponse = <<BT, "c", BT>>
    /\ targetFile = OriginalContent

\* the reports that tell of a failed operation
FailureReports ==
    {"Error performing operation", "Error running tests", "Session error",
     "readFails", "backupFails", "writeFails", "Fatal error"}

\* C13: in the command loop of AiBuild.js, after a command whose operation
\* failed the failure has been reported and the loop is back at the prompt,
\* for every command including ::upgrade: no failure ends the loop
C13_LoopSurvivesFailure ==
    /\ loopPc # "fatal"
    /\ Len(loopConsole) > 0 /\ loopConsole[Len(loopConsole)].report \in FailureReports
          => loopPc = "prompt"

\* the scanner is about to process line i
AtLine == pc = "loop" /\ i <= Len(lines)

\* the text of a marker line after the three tokens of its prefix
AfterPrefix(line) == SubSeq(line, 4, Len(line))

\* a folder directive on one line: prefix, path, closing marker
OneLineFolder(line) ==
    StartsWith(line, FolderPrefix) /\ Len(line) > 4 /\ line[Len(line)] = BT

\* the latest helper call of a scan state
LastOp(st) == st.ops[Len(st.ops)]

\* C14: for a folder directive written on one line as prefix, path P and
\* closing marker, the scanner asks for the directory named exactly P trimmed;
\* the closing marker is not part of the name
C14_FolderNameIsPath ==
    [][AtLine /\ scanner \in {"AiBuild", "Assistant"} /\ OneLineFolder(lines[i])
        => /\ Len(scan'.ops) = Len(scan.ops) + 1
           /\ LastOp(scan').op = "createFolder"
           /\ LastOp(scan').path =
                 Trim(SubSeq(lines[i], 4, Len(lines[i]) - 1))]_vars

\* C15: every path the scanner passes to folder creation or to file writing
\* is a non-empty string
C15_PathsNonEmpty ==
    \A k \in 1..Len(scan.ops) : scan.ops[k].path # <<>>

\* C16: the path of a file directive is the whole text after the marker
\* prefix with only surrounding white space removed, a ':' in it included
C16_PathVerbatim ==
    [][AtLine /\ StartsWith(lines[i], FilePrefix) /\ ~scan'.thrown
        => scan'.currentFilePath = Trim(AfterPrefix(lines[i]))]_vars

\* C17: a file-open marker read while a block is open first writes the lines
\* buffered so far to the open block's path, all of them and nothing else, and
\* then opens the new path with an empty buffer
C17_ReopenFlushesFirst ==
    [][AtLine /\ StartsWith(lines[i], FilePrefix) /\ Truthy(scan.currentFilePath)
        => /\ Len(scan'.ops) = Len(scan.ops) + 1
           /\ LastOp(scan').op = "writeFile"
           /\ LastOp(scan').path = scan.currentFilePath
           /\ LastOp(scan').content = Join(scan.currentFileContent, NL)
           /\ scan'.currentFilePath = MarkerPath(lines[i])
           /\ scan'.currentFileContent = <<>>]_vars

\* the block of a was flushed with two buffered lines by the marker that
\* opened b
C17_Witness ==
    /\ pc = "loop" /\ i = 5
    /\ StartsWith(lines[4], FilePrefix)
    /\ scan.currentFilePath = <<"b">> /\ scan.currentFileContent = <<>>
    /\ Len(scan.ops) = 1
    /\ LastOp(scan).path = <<"a">>
    /\ LastOp(scan).content = <<SP, "y", SP, NL, BT, "js">>

\* C18: a folder marker line leaves currentFilePath and currentFileContent as
\* they were, in any state, inside an open block too
C18_FolderKeepsBlock ==
    [][AtLine /\ StartsWith(lines[i], FolderPrefix)
        => /\ scan'.currentFilePath = scan.currentFilePath
           /\ scan'.currentFileContent = scan.currentFileContent]_vars

\* a folder marker was processed inside an open block that had a line buffered
C18_Witness ==
    /\ pc = "loop" /\ i = 4
    /\ StartsWith(lines[3], FolderPrefix)
    /\ scan.currentFilePath = <<"a">>
    /\ scan.currentFileContent = <<<<SP, "y", SP>>>>
    /\ LastOp(scan).op = "createFolder"

\* C19: while no block is open, a line that is neither a folder marker nor a
\* file-open marker causes no filesystem operation and leaves the path unset
\* and the buffer empty
C19_OutsideBlockIgnored ==
    [][AtLine /\ ~Truthy(scan.currentFilePath)
         /\ ~StartsWith(lines[i], FolderPrefix) /\ ~StartsWith(lines[i], FilePrefix)
        => /\ scan'.ops = scan.ops
           /\ scan'.files = scan.files /\ scan'.dirs = scan.dirs
           /\ ~Truthy(scan'.currentFilePath)
           /\ scan'.currentFileContent = <<>>]_vars

\* a bare close marker with no open block, then padded text, were passed over
C19_Witness ==
    /\ pc = "loop" /\ i = 3
    /\ lines[1] = <<BT>> /\ lines[2] = <<SP, "y", SP>>
    /\ scan.ops = <<>> /\ scan.currentFilePath = Null

\* the index of the file-open line of the block that is open at line k
OpenLine(k) ==
    CHOOSE j \in 0..(k - 1) :
        /\ j > 0 => StartsWith(lines[j], FilePrefix)
        /\ \A m \in (j + 1)..(k - 1) : ~StartsWith(lines[m], FilePrefix)
        /\ j = 0 => \A m \in 1..(k - 1) : ~StartsWith(lines[m], FilePrefix)

\* the lines after the open line of the current block and before line k
Between(k) == SubSeq(lines, OpenLine(k) + 1, k - 1)

\* C20: inside an open block a line that is no marker is appended to the
\* buffer as it is, after the lines already there, and nothing else happens;
\* at the close marker the content written is the lines between the open line
\* and the close line, blank lines and white space kept, when those lines hold
\* no folder marker
C20_BlockContentVerbatim ==
    [][AtLine /\ Truthy(scan.currentFilePath)
        => /\ ~StartsWith(lines[i], FolderPrefix)
                /\ ~StartsWith(lines[i], FilePrefix) /\ lines[i] # <<BT>>
              => /\ scan'.currentFileContent =
                       Append(scan.currentFileContent, lines[i])
                 /\ scan'.currentFilePath = scan.currentFilePath
                 /\ scan'.ops = scan.ops
           /\ lines[i] = <<BT>>
                /\ (\A m \in 1..Len(Between(i)) :
                        ~StartsWith(Between(i)[m], FolderPrefix))
              => /\ LastOp(scan').op = "writeFile"
                 /\ LastOp(scan').path = scan.currentFilePath
                 /\ LastOp(scan').content = Join(Between(i), NL)]_vars

\* a block of a blank line and a padded line was closed and written
C20_Witness ==
    /\ pc = "done" /\ Len(lines) = 4
    /\ lines[2] = <<>> /\ lines[3] = <<SP, "y", SP>> /\ lines[4] = <<BT>>
    /\ Len(scan.ops) = 1
    /\ LastOp(scan).ok /\ LastOp(scan).path = <<"a">>
    /\ scan.files[<<"a">>] = <<NL, SP, "y", SP>>

\* the waits of the running call, one after each failed attempt but the last
WaitsCounted ==
    /\ rpc = "attempting" => Len(waits) = tally.failedAttempts
    /\ rpc = "failure" => Len(waits) = tally.failedAttempts - 1

AttemptNumber ==
    IF wrapper = "Website" THEN attempt
    ELSE IF wrapper = "Backoff" THEN backoffI + 1
    ELSE maxAttempts - retriesLeft + 1

C23_ScanAfterFullStream ==
    [][/\ pc' # "off" =>
             /\ chunksLeft' = <<>>
             /\ response' = Concat(chunks')
             /\ turnPc' \in {"scanning", "done"}
       /\ pc' = "off" => scan'.ops = <<>> /\ scan'.files = <<>>
       /\ pc' = "start" /\ pc # "start" => pc = "off" /\ turnPc = "streaming"
       /\ pc' \in {"loop", "done"} => lines' = SplitOn(Concat(chunks'), NL)]_vars

\* a file-open marker cut between two chunks was read as one marker and its
\* file written
C23_Witness ==
    /\ chunks = <<<<BT, "file">>, <<COLON, "a", NL, "x", NL, BT>>>>
    /\ turnPc = "done"
    /\ Len(scan.ops) = 1
    /\ <<"a">> \in DOMAIN scan.files
    /\ scan.files[<<"a">>] = <<"x">>

\* C24: processAIResponse materializes the directives in the order of the
\* text: whenever a folder directive stands before a file directive, the
\* folder has been asked for before that file is written
C24_DocumentOrder ==
    scanner = "Regex" /\ pc = "done" =>
        \A f \in 1..Len(FolderMatches(response, 1)),
           g \in 1..Len(FileMatches(response, 1)) :
            FolderMatches(response, 1)[f].start < FileMatches(response, 1)[g].start
            => \E j, k \in 1..Len(scan.ops) :
                  /\ j < k
                  /\ scan.ops[j].op = "createFolder"
                  /\ scan.ops[j].path = Trim(FolderMatches(response, 1)[f].path)
                  /\ scan.ops[k].op = "writeFile"
                  /\ scan.ops[k].path = Trim(FileMatches(response, 1)[g].path)

\* every call so far was answered with a rate-limit error
All429 == \A k \in 1..Len(insightOutcomes) : insightOutcomes[k] = "429"

\* C25: with a remote service that answers every call with a 429 error,
\* generateAdvancedCodeInsights makes no more than the first call plus the
\* five attempts of exponentialBackoff, and waits a backoff delay between
\* consecutive calls
C25_BoundedCallsWithBackoff ==
    All429 =>
        /\ Len(insightOutcomes) <= 1 + BackoffDefaultRetries
        /\ Len(insightOutcomes) >= 1 => Len(insightWaits) >= Len(insightOutcomes) - 1

\* C25, the bound on the calls alone
C25_BoundedCalls == All429 => Len(insightOutcomes) <= 1 + BackoffDefaultRetries


\* ---------------------------------------------------------------------
\* createComponent of the two WebsiteGenerator classes (Website.js)
\* ---------------------------------------------------------------------

\* how many generateAIResponse calls one createComponent run makes at most
MaxComponentCalls == 5

\* nothing but the component generation or the real-time session runs
CoreOff ==
    /\ response = <<>> /\ directives = <<>> /\ scanner = "none"
    /\ lines = <<>> /\ i = 0 /\ scan = InitScan /\ pc = "off"
    /\ result = [type |-> "pending", list |-> <<>>]
    /\ RetryOff
    /\ loopPc = "off" /\ loopConsole = <<>> /\ commands = 0
    /\ currentProject = FALSE
    /\ TurnOff /\ RegexOff /\ InsightOff

\* what await this.generateAIResponse(aiPrompt) does: it returns the text or
\* throws its terminal failure once its attempts are exhausted
GenerateOutcomes == {"text", "exhausted"}

\* the entries of compLog that are generateAIResponse calls
IsCall(e) == e \in GenerateOutcomes

RECURSIVE CallsIn(_)
CallsIn(log) ==
    IF log = <<>> THEN 0
    ELSE (IF IsCall(Head(log)) THEN 1 ELSE 0) + CallsIn(Tail(log))

\* let continueExpanding = true; let componentContent = ''
ComponentInit ==
    /\ CoreOff /\ SessionOff
    /\ compVersion \in {1, 2}
    /\ compPc = "generating"
    /\ compLog = <<>>
    /\ componentContent = <<>>
    /\ compSaves = 0

ComponentFrame == UNCHANGED <<scanVars, retryVars, loopPc, loopConsole,
                              commands, currentProject, turnVars, regexVars,
                              insightVars, sessionVars>>

\* the catch block of the first createComponent:
\* continueExpanding = await this.askToRetry(componentName)
\* the catch block of the second one logs "Retrying ...", waits 3000 ms and
\* leaves continueExpanding true
AfterFailure(version) == IF version = 1 THEN "askRetry" ELSE "generating"

\* one pass of the try block up to the question, or into the catch block
CompGenerate ==
    /\ compPc = "generating" /\ CallsIn(compLog) < MaxComponentCalls
    /\ \E outcome \in GenerateOutcomes :
        /\ compLog' = Append(compLog, outcome)
        /\ IF outcome = "text"
           THEN /\ componentContent' = Append(componentContent, "code")
                /\ compSaves' = IF compVersion = 1 THEN compSaves + 1
                                ELSE compSaves
                /\ compPc' = "askExpansion"
           ELSE /\ compPc' = AfterFailure(compVersion)
                /\ UNCHANGED <<componentContent, compSaves>>
    /\ UNCHANGED compVersion
    /\ ComponentFrame

\* continueExpanding = await this.askForExpansion(componentName); iteration++
CompAskExpansion ==
    /\ compPc = "askExpansion"
    /\ \E yes \in BOOLEAN :
        /\ compLog' = Append(compLog, IF yes THEN "expand" ELSE "enough")
        /\ compPc' = IF yes THEN "generating" ELSE "saving"
    /\ UNCHANGED <<compVersion, componentContent, compSaves>>
    /\ ComponentFrame

\* askToRetry: return answer.toLowerCase() === 'yes'
CompAskRetry ==
    /\ compPc = "askRetry"
    /\ \E yes \in BOOLEAN :
        /\ compLog' = Append(compLog, IF yes THEN "retry" ELSE "giveUp")
        /\ compPc' = IF yes THEN "generating" ELSE "saving"
    /\ UNCHANGED <<compVersion, componentContent, compSaves>>
    /\ ComponentFrame

\* after the loop: await this.saveComponentToFile(filePath, componentContent)
CompSave ==
    /\ compPc = "saving"
    /\ compSaves' = compSaves + 1
    /\ compPc' = "done"
    /\ UNCHANGED <<compVersion, compLog, componentContent>>
    /\ ComponentFrame

ComponentNext == CompGenerate \/ CompAskExpansion \/ CompAskRetry \/ CompSave

ComponentSpec == ComponentInit /\ [][ComponentNext]_vars

\* C26: once generateAIResponse has raised its terminal failure, no further
\* generateAIResponse call is made for the component unless the operator
\* asked for a retry: in the log of either createComponent, the entry after
\* an exhausted call is never another call.
C26_NoCallAfterFailureUnasked ==
    \A k \in 1..(Len(compLog) - 1) :
        compLog[k] = "exhausted" => ~IsCall(compLog[k + 1])

\* the first createComponent alone keeps to it
C26_FirstVersionAsks ==
    compVersion = 1 => C26_NoCallAfterFailureUnasked


\* ---------------------------------------------------------------------
\* generateAIResponse of the first WebsiteGenerator class on a history that
\* earlier calls have filled
\* ---------------------------------------------------------------------

\* how many calls succeeded before the calls under observation
MaxEarlierCalls == 5

\* the two pushes and the limit of a successful call (Website.js:93-95)
Exchange(h, p) ==
    limitConversationHistory(
        h \o <<[role |-> "user", text |-> p],
               [role |-> "model", text |-> ResponseText]>>)

\* this.conversationHistory after k successful calls with string prompts
RECURSIVE HistoryAfter(_)
HistoryAfter(k) ==
    IF k = 0 THEN <<>>
    ELSE Exchange(HistoryAfter(k - 1), [kind |-> "string", text |-> "p1"])

HistoryInit ==
    /\ response = <<>> /\ directives = <<>> /\ scanner = "none"
    /\ lines = <<>> /\ i = 0 /\ scan = InitScan /\ pc = "off"
    /\ result = [type |-> "pending", list |-> <<>>]
    /\ wrapper = "Website"
    /\ maxAttempts \in 0..MaxRetries
    /\ prompt = [kind |-> "string", text |-> ""]
    /\ rpc = "idle"
    /\ attempt = 0 /\ retriesLeft = 0 /\ backoffI = 0
    /\ \E k \in 0..MaxEarlierCalls : conversationHistory = HistoryAfter(k)
    /\ performanceMetrics = {}
    /\ waits = <<>>
    /\ tally = NoTally(<<>>)
    /\ turns = 0
    /\ lastError = NoError
    /\ handed = Pending
    /\ targetFile = OriginalContent
    /\ aiResponse = <<>>
    /\ LoopOff

HistoryNext == WebCall \/ WebAttempt \/ WebFallThrough

HistorySpec == HistoryInit /\ [][HistoryNext]_vars

\* the entries alternate user, model, ... starting with a user entry
Alternates(h) ==
    \A k \in 1..Len(h) : h[k].role = IF k % 2 = 1 THEN "user" ELSE "model"

WellFormedHistory(h) ==
    /\ Len(h) % 2 = 0
    /\ Len(h) <= MaxMessages
    /\ Alternates(h)

IsSuffix(s, t) ==
    \E n \in 0..Len(t) : s = SubSeq(t, n + 1, Len(t))

\* the step in which a generateAIResponse call returns its text
Succeeds == rpc = "attempting" /\ rpc' = "success"

\* C27: in the first WebsiteGenerator class the conversation history has even
\* length, at most 10 entries and alternates user, model from a user entry
\* after every step of generateAIResponse; a call that succeeds leaves the
\* history ending with its prompt as a user entry and the response as a model
\* entry, preceded by a suffix of the history it found.
C27_HistoryWellFormed ==
    [][/\ WellFormedHistory(conversationHistory')
       /\ Succeeds =>
            LET h == conversationHistory'
                n == Len(h)
            IN  /\ n >= 2
                /\ h[n - 1] = [role |-> "user", text |-> prompt]
                /\ h[n] = [role |-> "model", text |-> ResponseText]
                /\ IsSuffix(SubSeq(h, 1, n - 2), conversationHistory)
                /\ n = IF Len(conversationHistory) + 2 > MaxMessages
                       THEN MaxMessages ELSE Len(conversationHistory) + 2]_vars

\* a call succeeded on a full history: the two oldest entries were dropped
C27_Witness ==
    /\ rpc = "success"
    /\ Len(tally.histAtCall) = MaxMessages
    /\ Len(conversationHistory) = MaxMessages
    /\ conversationHistory[MaxMessages - 1].text = prompt
    /\ tally.attempts = 1


\* ---------------------------------------------------------------------
\* the three line scanners side by side
\* ---------------------------------------------------------------------

\* the for loop of processFileCreation (AiBuild.js) over the lines that are
\* left, every helper call succeeding
RECURSIVE processFileCreationLoop(_, _)
processFileCreationLoop(st, ls) ==
    IF ls = <<>> THEN st
    ELSE processFileCreationLoop(processFileCreationLine(st, Head(ls), "ok"),
                                 Tail(ls))

\* processFileCreation (AiBuild.js) on a text given as its lines
processFileCreation(ls) ==
    processFileCreationEnd(processFileCreationLoop(InitScan, ls), "ok")

\* the file writes a scan made, in order, as (path, content) pairs
FileWrites(st) ==
    LET w == SelectSeq(st.ops,
                       LAMBDA o : o.op \in {"writeFile", "updateCodebase"})
    IN  [k \in 1..Len(w) |-> <<w[k].path, w[k].content>>]

NoFolderMarker(ls) == \A k \in 1..Len(ls) : ~StartsWith(ls[k], FolderPrefix)

NoFilesystemError(st) ==
    \A k \in 1..Len(st.ops) : st.ops[k].ok /\ st.ops[k].io = "ok"

\* C28: on a text without folder markers and with no filesystem error, each
\* of the three scanners ends with the same sequence of (path, content) file
\* writes as processFileCreation of AiBuild.js.
C28_ScannersAgree ==
    (pc = "done" /\ NoFolderMarker(lines) /\ NoFilesystemError(scan)
     /\ NoFilesystemError(processFileCreation(lines)))
        => FileWrites(scan) = FileWrites(processFileCreation(lines))

\* the two processFileCreation functions agree with each other
C28_AssistantAgrees ==
    scanner # "Evolution" => C28_ScannersAgree


\* ---------------------------------------------------------------------
\* advancedRealTimeCodeSession (advanced_self_upgrading_assistant.js)
\* ---------------------------------------------------------------------

\* how many processChanges invocations and user edits one session sees
MaxRounds == 3
MaxUserEdits == 2

\* what the user saves into the watched file
UserContents == {<<"u1">>, <<"u2">>}

\* applyAISuggestionsAndInsights: the insight comment block is put in front
\* of the lines of the content
applyAISuggestionsAndInsights(content) == <<"insights">> \o content

\* what generateAdvancedCodeInsights hands back: the parsed insights, or {} or
\* undefined, on which applyAISuggestionsAndInsights raises a TypeError
InsightResults == {"insights", "unusable"}

\* a processChanges invocation that has just been started
NewRound == [pc |-> "reading", content |-> <<>>, origin |-> "none",
             updated |-> <<>>, seen |-> FALSE]

\* let previousContent = ''; the watcher is set up on an existing file
SessionInit ==
    /\ CoreOff /\ ComponentOff
    /\ watchedFile = <<"u0">>
    /\ lastWriter = "user"
    /\ previousContent = <<>>
    /\ changeUnseen = FALSE
    /\ debounceArmed = FALSE
    /\ rounds = <<>>
    /\ modelCalls = 0
    /\ userEdits = 0

SessionFrame == UNCHANGED <<scanVars, retryVars, loopPc, loopConsole,
                            commands, currentProject, turnVars, regexVars,
                            insightVars, componentVars>>

\* the user saves the file
UserEdit ==
    /\ userEdits < MaxUserEdits
    /\ watchedFile' \in UserContents
    /\ lastWriter' = "user"
    /\ changeUnseen' = TRUE
    /\ userEdits' = userEdits + 1
    /\ UNCHANGED <<previousContent, debounceArmed, rounds, modelCalls>>
    /\ SessionFrame

\* the watcher polls (interval: 100), finds the file changed and emits
\* 'change': the debounced processChanges is scheduled anew, 5000 ms ahead.
\* A round whose write has resolved by now assigns previousContent long
\* before that delay is over, which seen records.
WatcherPoll ==
    /\ changeUnseen
    /\ changeUnseen' = FALSE
    /\ debounceArmed' = TRUE
    /\ rounds' = [k \in 1..Len(rounds) |->
                    IF rounds[k].pc = "assigning"
                    THEN [rounds[k] EXCEPT !.seen = TRUE] ELSE rounds[k]]
    /\ UNCHANGED <<watchedFile, lastWriter, previousContent, modelCalls,
                   userEdits>>
    /\ SessionFrame

\* the debounce delay has passed: processChanges is invoked and awaits
\* fs.readFile
DebounceFire ==
    /\ debounceArmed /\ Len(rounds) < MaxRounds
    /\ \A k \in 1..Len(rounds) : rounds[k].pc = "assigning" => ~rounds[k].seen
    /\ debounceArmed' = FALSE
    /\ rounds' = Append(rounds, NewRound)
    /\ UNCHANGED <<watchedFile, lastWriter, previousContent, changeUnseen,
                   modelCalls, userEdits>>
    /\ SessionFrame

\* const content = await fs.readFile(path, 'utf-8'): the file is read, or the
\* read is rejected and the catch block logs the error
RoundRead ==
    /\ \E k \in 1..Len(rounds), ok \in BOOLEAN :
        /\ rounds[k].pc = "reading"
        /\ rounds' = [rounds EXCEPT ![k] =
                        IF ok THEN [@ EXCEPT !.pc = "comparing",
                                             !.content = watchedFile,
                                             !.origin = lastWriter]
                        ELSE [@ EXCEPT !.pc = "caught"]]
    /\ UNCHANGED <<watchedFile, lastWriter, previousContent, changeUnseen,
                   debounceArmed, modelCalls, userEdits>>
    /\ SessionFrame

\* if (content === previousContent) return; otherwise the analysis starts
RoundCompare ==
    /\ \E k \in 1..Len(rounds) :
        /\ rounds[k].pc = "comparing"
        /\ rounds' = [rounds EXCEPT ![k].pc =
                        IF rounds[k].content = previousContent
                        THEN "returned" ELSE "analysing"]
    /\ UNCHANGED <<watchedFile, lastWriter, previousContent, changeUnseen,
                   debounceArmed, modelCalls, userEdits>>
    /\ SessionFrame

\* const insights = await generateAdvancedCodeInsights(...);
\* const updatedContent = applyAISuggestionsAndInsights(...)
RoundInsights ==
    /\ \E k \in 1..Len(rounds), r \in InsightResults :
        /\ rounds[k].pc = "analysing"
        /\ rounds' = [rounds EXCEPT ![k] =
                        IF r = "insights"
                        THEN [@ EXCEPT !.pc = "writing",
                                       !.updated =
                                           applyAISuggestionsAndInsights(rounds[k].content)]
                        ELSE [@ EXCEPT !.pc = "caught"]]
    /\ modelCalls' = modelCalls + 1
    /\ UNCHANGED <<watchedFile, lastWriter, previousContent, changeUnseen,
                   debounceArmed, userEdits>>
    /\ SessionFrame

\* await fs.writeFile(path, updatedContent, 'utf-8'): the file changes on
\* disk, which the watcher reports as a 'change'
RoundWrite ==
    /\ \E k \in 1..Len(rounds), ok \in BOOLEAN :
        /\ rounds[k].pc = "writing"
        /\ IF ok
           THEN /\ watchedFile' = rounds[k].updated
                /\ lastWriter' = "session"
                /\ changeUnseen' = TRUE
                /\ rounds' = [rounds EXCEPT ![k].pc = "assigning"]
           ELSE /\ rounds' = [rounds EXCEPT ![k].pc = "caught"]
                /\ UNCHANGED <<watchedFile, lastWriter, changeUnseen>>
    /\ UNCHANGED <<previousContent, debounceArmed, modelCalls, userEdits>>
    /\ SessionFrame

\* the write has resolved: previousContent = updatedContent
RoundAssign ==
    /\ \E k \in 1..Len(rounds) :
        /\ rounds[k].pc = "assigning"
        /\ previousContent' = rounds[k].updated
        /\ rounds' = [rounds EXCEPT ![k].pc = "finished"]
    /\ UNCHANGED <<watchedFile, lastWriter, changeUnseen, debounceArmed,
                   modelCalls, userEdits>>
    /\ SessionFrame

SessionNext ==
    \/ UserEdit \/ WatcherPoll \/ DebounceFire \/ RoundRead \/ RoundCompare
    \/ RoundInsights \/ RoundWrite \/ RoundAssign

SessionSpec == SessionInit /\ [][SessionNext]_vars

\* the rounds that are past the comparison and have not ended
InProgress == {"analysing", "writing", "assigning"}

RoundsInProgress == {k \in 1..Len(rounds) : rounds[k].pc \in InProgress}

\* C29: a processChanges invocation that reads content the session itself
\* wrote returns at the comparison: no invocation whose content was written
\* by the session gets past it to call the model or to write the file.
C29_OwnWriteStartsNoRound ==
    \A k \in 1..Len(rounds) :
        rounds[k].pc \in InProgress \cup {"finished"}
            => rounds[k].origin = "user"

\* C30: at most one analysis round is in progress at any time.
C30_OneRoundAtATime == Cardinality(RoundsInProgress) <= 1

\* no round writes a result computed from content older than the file holds:
\* a round that is about to write read the content the file still has
C30_NoStaleOverwrite ==
    \A k \in 1..Len(rounds) :
        rounds[k].pc = "writing" => rounds[k].content = watchedFile

====
